---- MODULE Spec2Model ----
(***************************************************************************)
(* A model of peregrine-backend: the team-match aggregator                 *)
(* (selectTeamMatches), the schema and response conversions, the two       *)
(* statistics handlers (eventStats, matchTeamStats), the summary package   *)
(* they call (field evaluation and SummarizeTeam), the match provider      *)
(* client (tba.Service.GetMatches) and the user handlers.                  *)
(*                                                                         *)
(* The specifications share the variables:                                 *)
(*   SpecAgg   the aggregator applied to drawn match and report lists;     *)
(*   SpecEval  the evaluator and the summarizer applied to a drawn schema  *)
(*             and a drawn list of observations of one team;               *)
(*   Spec      the two statistics handlers over a drawn store;             *)
(*   SpecTwice Spec with an answered event-wide query asked once more;     *)
(*   SpecTBA   the provider client against a drawn provider response;      *)
(*   SpecUsers the user handlers over a drawn users table;                 *)
(*   SpecAuth  authentication, token refresh, password change and user     *)
(*             deletion over a drawn users table and a clock;              *)
(*   SpecSync  the store's UpdateTBAMatches and MarkMatchesDeleted over a  *)
(*             drawn matches table.                                        *)
(***************************************************************************)
EXTENDS Integers, Sequences, FiniteSets, TLC

VARIABLES
    pc,             \* position of the running operation
    storeMatches,   \* []store.Match handed to selectTeamMatches
    reports,        \* []store.Report handed to selectTeamMatches
    teamToMatches,  \* map[string][]summary.Match returned by selectTeamMatches
    schema,         \* summary.Schema handed to the summary package
    observations,   \* []summary.Match of one team handed to the summary package
    evals,          \* evals[f][o]: schema field f evaluated on observation o
    summary,        \* result of SummarizeTeam
    store,          \* what the store holds for the event: Matches, Reports, Schema
    request,        \* the statistics request being handled
    event,          \* the handler's event, as GetEventForRealm returned it
    fetched,        \* the store calls the handler has made, in order
    pending,        \* keys of teamToMatches the handler's loop has yet to visit
    teamAnalyses,   \* the handler's teamAnalyses slice
    response,       \* the response written: status and body
    previous,       \* body of the 200 response to the same request, asked before
    users,          \* the users table of the store, by user id
    served,         \* number of user requests handled
    provider,       \* what the external match provider answers
    tbaResult,      \* what tba.Service.GetMatches returned: matches and error
    now,            \* the clock, in ticks of 1/TicksPerSecond second
    refreshTokens,  \* the refresh tokens issued, each with its time of issue
    matchTable      \* the matches table of the store, by match key

aggVars  == <<storeMatches, reports, teamToMatches>>
evalVars == <<schema, observations, evals, summary>>
handlerVars == <<store, request, event, fetched, pending, teamAnalyses, response>>
userVars == <<users, served>>
tbaVars == <<provider, tbaResult>>
authVars == <<now, refreshTokens>>
extVars == <<previous, userVars, tbaVars, authVars, matchTable>>
vars == <<pc, storeMatches, reports, teamToMatches, schema, observations, evals,
          summary, store, request, event, fetched, pending, teamAnalyses, response,
          previous, users, served, provider, tbaResult, now, refreshTokens,
          matchTable>>

(***************************************************************************)
(* Bounds of the model.                                                    *)
(***************************************************************************)
MaxMatches == 2        \* matches in a drawn match list
MaxReports == 2        \* reports in a drawn report list
MaxFields == 3         \* fields in a drawn schema
MaxObservations == 2   \* observations in a drawn list of one team
MaxObsReports == 3     \* reports attached to a drawn single observation
MaxProviderMatches == 2  \* matches in a drawn provider response
MaxUsers == 4          \* users the store ever holds
MaxRequests == 2       \* user requests handled in a run
MaxAuthRequests == 3   \* requests handled in a run of SpecAuth
MaxSyncMatches == 2    \* matches of the synced event, stored or handed over

(***************************************************************************)
(* Go maps: a function whose DOMAIN is the set of keys present.  A lookup  *)
(* of a missing key yields the zero value (nil map, nil slice).            *)
(***************************************************************************)
EmptyMap == <<>>

MapGet(m, k, zero) == IF k \in DOMAIN m THEN m[k] ELSE zero

MapPut(m, k, v) == [x \in (DOMAIN m) \cup {k} |-> IF x = k THEN v ELSE m[x]]

\* A Go pointer: nil is the empty sequence, &x the sequence holding x.
Nil == <<>>
PointerTo(x) == <<x>>

NoResponse == [status |-> 0, body |-> <<>>]

\* The handler variables of a specification that runs no handler.
HandlerIdle ==
    /\ store = <<>> /\ request = <<>> /\ event = <<>> /\ fetched = <<>>
    /\ pending = {} /\ teamAnalyses = <<>> /\ response = NoResponse

\* The remaining variables of a specification that repeats no request, has
\* no users table, no clock and no matches table and calls no provider.
ExtIdle ==
    /\ previous = Nil /\ users = EmptyMap /\ served = 0
    /\ provider = <<>> /\ tbaResult = <<>>
    /\ now = 0 /\ refreshTokens = {} /\ matchTable = EmptyMap

(***************************************************************************)
(* Input pools.  A lineup is the pair of alliances of one match; every     *)
(* lineup lists a team at most once.  Alliance sizes range over 0..3 with  *)
(* equal and unequal red and blue sizes.                                   *)
(***************************************************************************)
Lineups ==
    { [red |-> <<>>,              blue |-> <<>>],
      [red |-> <<"B", "A">>,      blue |-> <<"C">>],
      [red |-> <<"A">>,           blue |-> <<"B", "C">>],
      [red |-> <<>>,              blue |-> <<"A">>],
      [red |-> <<"A", "B", "C">>, blue |-> <<"D", "E", "F">>],
      [red |-> <<"A", "B">>,      blue |-> <<"C", "D", "E">>] }

\* Team keys reports are submitted for; "Z" plays in no lineup.
ReportTeams == {"A", "B", "Z"}

\* Match keys reports are submitted for; a drawn match list may hold neither.
ReportMatchKeys == {1, 2}

\* Values of a score breakdown (map[string]interface{}), tagged by their type.
Number(n) == <<"Number", n>>
Bool(b) == <<"Bool", b>>

\* The score breakdowns of the match with key k: distinct per match and
\* colour; the blue one has a negative score and lacks the key "climbed".
RedBreakdownOf(k)  == [score |-> Number(10 * k), climbed |-> Bool(TRUE)]
BlueBreakdownOf(k) == [score |-> Number(5 - 10 * k)]

\* store.Match (the fields the analysis reads) with key k and lineup l.
StoreMatch(k, l) ==
    [Key |-> k, RedAlliance |-> l.red, BlueAlliance |-> l.blue,
     RedScoreBreakdown |-> RedBreakdownOf(k),
     BlueScoreBreakdown |-> BlueBreakdownOf(k)]

\* Match keys are unique (primary key of the matches table): the i-th match
\* of a drawn list has key i.
MatchLists ==
    UNION { { [i \in 1..n |-> StoreMatch(i, ls[i])] : ls \in [1..n -> Lineups] }
            : n \in 0..MaxMatches }

\* The data of the i-th submitted report: i mod 3 fields, tagged with i.
ReportFieldNames == <<"auto", "teleop">>

ReportData(i) ==
    [k \in 1..(i % 3) |-> [Name |-> ReportFieldNames[k], Value |-> i]]

ReportLists ==
    UNION { { [i \in 1..n |->
                 [TeamKey |-> ks[i][1], MatchKey |-> ks[i][2], Data |-> ReportData(i)]]
              : ks \in [1..n -> ReportTeams \X ReportMatchKeys] }
            : n \in 0..MaxReports }

(***************************************************************************)
(* selectTeamMatches                                                       *)
(***************************************************************************)
\* The conversion of one store.Report into a summary.Report.
summaryReport(report) ==
    [k \in 1..Len(report.Data) |->
        [Name |-> report.Data[k].Name, Value |-> report.Data[k].Value]]

\* indexReport with the new report put before the earlier ones.
indexReport_Prepend(teamToMatchToReports, report) ==
    LET inner == MapGet(teamToMatchToReports, report.TeamKey, EmptyMap)
        old   == MapGet(inner, report.MatchKey, <<>>)
    IN  MapPut(teamToMatchToReports, report.TeamKey,
               MapPut(inner, report.MatchKey, <<summaryReport(report)>> \o old))

\* One iteration of the first loop: the report is appended to its
\* (team, match) entry.
indexReport(teamToMatchToReports, report) ==
    LET inner == MapGet(teamToMatchToReports, report.TeamKey, EmptyMap)
        old   == MapGet(inner, report.MatchKey, <<>>)
    IN  MapPut(teamToMatchToReports, report.TeamKey,
               MapPut(inner, report.MatchKey, Append(old, summaryReport(report))))

RECURSIVE indexReports(_, _, _)
indexReports(rs, i, acc) ==
    IF i > Len(rs) THEN acc
    ELSE indexReports(rs, i + 1, indexReport(acc, rs[i]))

\* teams := append(RedAlliance, BlueAlliance...)
matchTeams(storeMatch) == storeMatch.RedAlliance \o storeMatch.BlueAlliance

\* robotPosition without the wrap-around at the red alliance's size.
robotPosition_NoWrap(i, storeMatch) == i + 1

\* robotPosition without the "+ 1": positions counted from 0.
robotPosition_FromZero(i, storeMatch) == i % Len(storeMatch.RedAlliance)

\* position := (i % len(RedAlliance)) + 1, i counted from 0.
robotPosition(i, storeMatch) == (i % Len(storeMatch.RedAlliance)) + 1

\* The integer division by zero of i % len(RedAlliance): a run-time panic.
positionPanics(storeMatch) ==
    Len(storeMatch.RedAlliance) = 0 /\ Len(matchTeams(storeMatch)) > 0

\* teamBreakdown with the boundary between the alliances off by one.
teamBreakdown_OffByOne(i, storeMatch) ==
    IF i > Len(storeMatch.RedAlliance)
        THEN storeMatch.BlueScoreBreakdown
        ELSE storeMatch.RedScoreBreakdown

\* breakdown := Red...; if i >= len(RedAlliance) { breakdown = Blue... }
teamBreakdown(i, storeMatch) ==
    IF i >= Len(storeMatch.RedAlliance)
        THEN storeMatch.BlueScoreBreakdown
        ELSE storeMatch.RedScoreBreakdown

\* Reports: teamToMatchToReports[team][storeMatch.Key]
teamReports(teamToMatchToReports, team, key) ==
    MapGet(MapGet(teamToMatchToReports, team, EmptyMap), key, <<>>)

\* The summary.Match built for the team at index i (from 0) of the match.
teamMatch(teamToMatchToReports, storeMatch, i) ==
    [Key            |-> storeMatch.Key,
     RobotPosition  |-> robotPosition(i, storeMatch),
     ScoreBreakdown |-> teamBreakdown(i, storeMatch),
     Reports        |-> teamReports(teamToMatchToReports,
                                    matchTeams(storeMatch)[i + 1], storeMatch.Key)]

\* teamToMatches[team] = append(teamToMatches[team], match)
appendTeamMatch(acc, team, match) ==
    MapPut(acc, team, Append(MapGet(acc, team, <<>>), match))

\* The inner loop over the teams of one match, from index i (from 0).
RECURSIVE matchLoop(_, _, _, _)
matchLoop(idx, storeMatch, i, acc) ==
    IF i >= Len(matchTeams(storeMatch)) THEN acc
    ELSE matchLoop(idx, storeMatch, i + 1,
                   appendTeamMatch(acc, matchTeams(storeMatch)[i + 1],
                                   teamMatch(idx, storeMatch, i)))

\* The outer loop over the matches; the result is the map, or a panic.
RECURSIVE matchesLoop(_, _, _, _)
matchesLoop(idx, ms, j, acc) ==
    IF j > Len(ms) THEN [panic |-> FALSE, out |-> acc]
    ELSE IF positionPanics(ms[j]) THEN [panic |-> TRUE, out |-> EmptyMap]
    ELSE matchesLoop(idx, ms, j + 1, matchLoop(idx, ms[j], 0, acc))

\* selectTeamMatches with the output seeded with every team that has reports.
selectTeamMatches_SeedFromReports(ms, rs) ==
    LET idx == indexReports(rs, 1, EmptyMap)
    IN  matchesLoop(idx, ms, 1, [t \in DOMAIN idx |-> <<>>])

selectTeamMatches(ms, rs) ==
    matchesLoop(indexReports(rs, 1, EmptyMap), ms, 1, EmptyMap)

(***************************************************************************)
(* SpecAgg: the aggregator applied to every drawn input.                   *)
(***************************************************************************)
InitAgg ==
    /\ pc = "agg_call"
    /\ storeMatches \in MatchLists
    /\ reports \in ReportLists
    /\ teamToMatches = EmptyMap
    /\ schema = <<>> /\ observations = <<>> /\ evals = <<>> /\ summary = <<>>
    /\ HandlerIdle
    /\ ExtIdle

AggReturn ==
    /\ pc = "agg_call"
    /\ ~selectTeamMatches(storeMatches, reports).panic
    /\ teamToMatches' = selectTeamMatches(storeMatches, reports).out
    /\ pc' = "agg_returned"
    /\ UNCHANGED <<storeMatches, reports, evalVars, handlerVars>>
    /\ UNCHANGED extVars

AggPanic ==
    /\ pc = "agg_call"
    /\ selectTeamMatches(storeMatches, reports).panic
    /\ pc' = "agg_panic"
    /\ UNCHANGED <<aggVars, evalVars, handlerVars>>
    /\ UNCHANGED extVars

NextAgg == AggReturn \/ AggPanic

SpecAgg == InitAgg /\ [][NextAgg]_vars

(***************************************************************************)
(* The summary package: summary.Schema, field evaluation, SummarizeTeam.   *)
(* Modelled from the design specification (sections 3, 4.1 and 4.3).       *)
(***************************************************************************)
\* Results of an evaluation: a present number, absent, or the schema error.
Present(n) == <<"Present", n>>
Absent == <<"Absent">>
SchemaIntegrityError == <<"SchemaIntegrityError">>

IsPresent(r) == r[1] = "Present"
IsError(r) == r[1] = "SchemaIntegrityError"
orZero(r) == IF IsPresent(r) THEN r[2] ELSE 0

\* summary.SchemaField, one per variant.
ReportRefField(name, ref) ==
    [Name |-> name, ReportReference |-> ref, TBAReference |-> "", Sum |-> <<>>, AnyOf |-> <<>>]
TBARefField(name, ref) ==
    [Name |-> name, ReportReference |-> "", TBAReference |-> ref, Sum |-> <<>>, AnyOf |-> <<>>]
SumField(name, names) ==
    [Name |-> name, ReportReference |-> "", TBAReference |-> "",
     Sum |-> [i \in 1..Len(names) |-> [Name |-> names[i]]], AnyOf |-> <<>>]
\* pairs are <<name, literal>> tuples, one summary.EqualExpression each.
AnyOfField(name, pairs) ==
    [Name |-> name, ReportReference |-> "", TBAReference |-> "", Sum |-> <<>>,
     AnyOf |-> [i \in 1..Len(pairs) |-> [Name |-> pairs[i][1], Equals |-> pairs[i][2]]]]

\* The index of the schema field called name, 0 when the name is undefined.
resolveField(sch, name) ==
    IF \E i \in 1..Len(sch) : sch[i].Name = name
        THEN CHOOSE i \in 1..Len(sch) :
                 /\ sch[i].Name = name
                 /\ \A j \in 1..(i - 1) : sch[j].Name # name
        ELSE 0

\* The values of the report field called name, one per report that has it,
\* in report order.
RECURSIVE reportValues(_, _, _)
reportValues(reps, name, i) ==
    IF i > Len(reps) THEN <<>>
    ELSE LET HasName(f) == f.Name = name
             hits == SelectSeq(reps[i], HasName)
         IN  (IF Len(hits) > 0 THEN <<hits[1].Value>> ELSE <<>>)
                 \o reportValues(reps, name, i + 1)

countOf(vals, v) == Cardinality({ i \in 1..Len(vals) : vals[i] = v })

\* modeScan with a later value replacing an equally frequent earlier one.
RECURSIVE modeScan_LastWins(_, _, _)
modeScan_LastWins(vals, i, best) ==
    IF i > Len(vals) THEN best
    ELSE modeScan_LastWins(vals, i + 1,
             IF countOf(vals, vals[i]) >= countOf(vals, best) THEN vals[i] ELSE best)

\* The mode of vals, scanned in order: a value replaces the best so far only
\* when it is strictly more frequent.
RECURSIVE modeScan(_, _, _)
modeScan(vals, i, best) ==
    IF i > Len(vals) THEN best
    ELSE modeScan(vals, i + 1,
             IF countOf(vals, vals[i]) > countOf(vals, best) THEN vals[i] ELSE best)

evalReportRef(name, obs) ==
    LET vals == reportValues(obs.Reports, name, 1)
    IN  IF Len(vals) = 0 THEN Absent ELSE Present(modeScan(vals, 2, vals[1]))

\* evalTBARef with a missing key read as 0.
evalTBARef_MissingIsZero(name, obs) ==
    IF name \notin DOMAIN obs.ScoreBreakdown THEN Present(0)
    ELSE LET v == obs.ScoreBreakdown[name]
         IN  IF v[1] = "Bool" THEN Present(IF v[2] THEN 1 ELSE 0)
             ELSE IF v[1] = "Number" THEN Present(v[2])
             ELSE Absent

evalTBARef(name, obs) ==
    IF name \notin DOMAIN obs.ScoreBreakdown THEN Absent
    ELSE LET v == obs.ScoreBreakdown[name]
         IN  IF v[1] = "Bool" THEN Present(IF v[2] THEN 1 ELSE 0)
             ELSE IF v[1] = "Number" THEN Present(v[2])
             ELSE Absent

RECURSIVE evaluate(_, _, _)
RECURSIVE evalSum(_, _, _, _, _)
RECURSIVE evalSum_AbsentPropagates(_, _, _, _, _)
RECURSIVE evalSum_UndefinedIsZero(_, _, _, _, _)
RECURSIVE evalAnyOf(_, _, _, _, _)
RECURSIVE evalAnyOf_AbsentIsZero(_, _, _, _, _)

\* evalSum with an absent sub-field making the whole sum absent.
evalSum_AbsentPropagates(sch, names, obs, i, acc) ==
    IF i > Len(names) THEN Present(acc)
    ELSE LET f == resolveField(sch, names[i].Name)
         IN  IF f = 0 THEN SchemaIntegrityError
             ELSE LET r == evaluate(sch, sch[f], obs)
                  IN  IF IsError(r) THEN r
                      ELSE IF ~IsPresent(r) THEN Absent
                      ELSE evalSum_AbsentPropagates(sch, names, obs, i + 1, acc + r[2])

\* evalSum with an undefined sub-field name read as 0.
evalSum_UndefinedIsZero(sch, names, obs, i, acc) ==
    IF i > Len(names) THEN Present(acc)
    ELSE LET f == resolveField(sch, names[i].Name)
         IN  IF f = 0 THEN evalSum_UndefinedIsZero(sch, names, obs, i + 1, acc)
             ELSE LET r == evaluate(sch, sch[f], obs)
                  IN  IF IsError(r) THEN r
                      ELSE evalSum_UndefinedIsZero(sch, names, obs, i + 1, acc + orZero(r))

\* Sum: the sub-fields' values added up from index i on, absent read as 0.
evalSum(sch, names, obs, i, acc) ==
    IF i > Len(names) THEN Present(acc)
    ELSE LET f == resolveField(sch, names[i].Name)
         IN  IF f = 0 THEN SchemaIntegrityError
             ELSE LET r == evaluate(sch, sch[f], obs)
                  IN  IF IsError(r) THEN r
                      ELSE evalSum(sch, names, obs, i + 1, acc + orZero(r))

\* evalAnyOf with an absent sub-field compared as the number 0.
evalAnyOf_AbsentIsZero(sch, pairs, obs, i, hit) ==
    IF i > Len(pairs) THEN Present(IF hit THEN 1 ELSE 0)
    ELSE LET f == resolveField(sch, pairs[i].Name)
         IN  IF f = 0 THEN SchemaIntegrityError
             ELSE LET r == evaluate(sch, sch[f], obs)
                  IN  IF IsError(r) THEN r
                      ELSE evalAnyOf_AbsentIsZero(sch, pairs, obs, i + 1,
                                                  hit \/ orZero(r) = pairs[i].Equals)

\* AnyOf: 1 when a sub-field's value equals its literal, else 0.
evalAnyOf(sch, pairs, obs, i, hit) ==
    IF i > Len(pairs) THEN Present(IF hit THEN 1 ELSE 0)
    ELSE LET f == resolveField(sch, pairs[i].Name)
         IN  IF f = 0 THEN SchemaIntegrityError
             ELSE LET r == evaluate(sch, sch[f], obs)
                  IN  IF IsError(r) THEN r
                      ELSE evalAnyOf(sch, pairs, obs, i + 1,
                                     hit \/ (IsPresent(r) /\ r[2] = pairs[i].Equals))

evaluate(sch, field, obs) ==
    IF field.ReportReference # "" THEN evalReportRef(field.ReportReference, obs)
    ELSE IF field.TBAReference # "" THEN evalTBARef(field.TBAReference, obs)
    ELSE IF Len(field.Sum) > 0 THEN evalSum(sch, field.Sum, obs, 1, 0)
    ELSE evalAnyOf(sch, field.AnyOf, obs, 1, FALSE)

\* A float64 quotient, kept exact: the fraction num/den in lowest terms.
RECURSIVE gcd(_, _)
gcd(a, b) == IF b = 0 THEN a ELSE gcd(b, a % b)

abs(n) == IF n < 0 THEN -n ELSE n

quotient(n, d) ==
    LET g == gcd(abs(n), d)
    IN  [num |-> n \div g, den |-> d \div g]

Zero == [num |-> 0, den |-> 1]

\* The present values among the evaluations of one field, in observation order.
RECURSIVE presentValues(_, _, _, _)
presentValues(sch, field, matches, o) ==
    IF o > Len(matches) THEN <<>>
    ELSE LET r == evaluate(sch, field, matches[o])
         IN  (IF IsPresent(r) THEN <<r[2]>> ELSE <<>>)
                 \o presentValues(sch, field, matches, o + 1)

RECURSIVE maxOf(_, _, _)
maxOf(vals, i, best) ==
    IF i > Len(vals) THEN best
    ELSE maxOf(vals, i + 1, IF vals[i] > best THEN vals[i] ELSE best)

RECURSIVE sumOf(_, _)
sumOf(vals, i) == IF i > Len(vals) THEN 0 ELSE vals[i] + sumOf(vals, i + 1)

\* summarizeField with the sum divided by the number of observations.
summarizeField_DividesByAll(sch, field, matches) ==
    LET vals == presentValues(sch, field, matches, 1)
    IN  IF Len(vals) = 0
            THEN [Name |-> field.Name, Max |-> 0, Average |-> Zero]
            ELSE [Name |-> field.Name, Max |-> maxOf(vals, 2, vals[1]),
                  Average |-> quotient(sumOf(vals, 1), Len(matches))]

\* The stat of one field: maximum and mean of its present values, 0 and 0
\* when there is none.
summarizeField(sch, field, matches) ==
    LET vals == presentValues(sch, field, matches, 1)
    IN  IF Len(vals) = 0
            THEN [Name |-> field.Name, Max |-> 0, Average |-> Zero]
            ELSE [Name |-> field.Name, Max |-> maxOf(vals, 2, vals[1]),
                  Average |-> quotient(sumOf(vals, 1), Len(vals))]

\* Whether some evaluation of some field on some observation fails.
summarizeFails(sch, matches) ==
    \E f \in 1..Len(sch) : \E o \in 1..Len(matches) :
        IsError(evaluate(sch, sch[f], matches[o]))

\* SummarizeTeam: one stat per schema field in schema order, or the error.
SummarizeTeam(sch, matches) ==
    IF summarizeFails(sch, matches)
        THEN [err |-> TRUE, summary |-> <<>>]
        ELSE [err |-> FALSE,
              summary |-> [f \in 1..Len(sch) |-> summarizeField(sch, sch[f], matches)]]

(***************************************************************************)
(* SpecEval: the evaluator and the summarizer applied to a drawn schema    *)
(* and a drawn list of observations of one team.                           *)
(***************************************************************************)
\* The fields schemas are drawn from.  "broken" refers to the name "ghost",
\* which no schema defines; "total" refers to names a drawn schema may or
\* may not define.
FieldPool ==
    { ReportRefField("auto", "auto"),
      TBARefField("score", "score"),
      TBARefField("climbed", "climbed"),
      SumField("total", <<"auto", "score">>),
      SumField("broken", <<"auto", "ghost">>) }

\* Sequences of n pairwise different elements of S.
RECURSIVE distinctSeqs(_, _)
distinctSeqs(S, n) ==
    IF n = 0 THEN { <<>> }
    ELSE UNION { { Append(q, x) : x \in S \ { q[i] : i \in 1..Len(q) } }
                 : q \in distinctSeqs(S, n - 1) }

\* Schemas with AnyOf fields, and with fields that reach the undefined name
\* "ghost" directly, behind a matching pair, and through another field.
IndicatorSchemas ==
    LET auto    == ReportRefField("auto", "auto")
        score   == TBARefField("score", "score")
        climbed == TBARefField("climbed", "climbed")
        broken  == SumField("broken", <<"auto", "ghost">>)
    IN  { <<climbed, AnyOfField("didClimb", << <<"climbed", 1>> >>)>>,
          <<climbed, AnyOfField("stayedDown", << <<"climbed", 0>> >>)>>,
          <<auto, score, AnyOfField("either", << <<"auto", 3>>, <<"score", 20>> >>)>>,
          <<AnyOfField("lonely", << <<"ghost", 1>> >>)>>,
          <<auto, AnyOfField("half", << <<"auto", 3>>, <<"ghost", 1>> >>)>>,
          <<auto, broken, SumField("nested", <<"broken">>)>>,
          <<auto, broken, AnyOfField("viaAny", << <<"broken", 0>> >>)>> }

\* Schemas: field names are unique.
Schemas == UNION { distinctSeqs(FieldPool, n) : n \in 0..MaxFields } \cup IndicatorSchemas

BreakdownPool ==
    { <<>>,
      [score |-> Number(10), climbed |-> Bool(TRUE)],
      [score |-> Number(20), climbed |-> Bool(FALSE)],
      [score |-> Number(-5)] }

\* summary.Report values an observation's reports are drawn from.
ReportPool ==
    { <<[Name |-> "auto", Value |-> 3]>>,
      <<[Name |-> "auto", Value |-> 5]>>,
      <<[Name |-> "teleop", Value |-> 2]>> }

ObsReportLists == UNION { [1..n -> ReportPool] : n \in 0..MaxObsReports }

Observation(key, position, breakdown, reps) ==
    [Key |-> key, RobotPosition |-> position, ScoreBreakdown |-> breakdown, Reports |-> reps]

\* Observations that lists of several observations are drawn from.
ObsPool ==
    LET r3 == <<[Name |-> "auto", Value |-> 3]>>
        r5 == <<[Name |-> "auto", Value |-> 5]>>
    IN  { Observation(0, 1, <<>>, <<>>),
          Observation(0, 1, [score |-> Number(10), climbed |-> Bool(TRUE)], <<r3, r3, r5>>),
          Observation(0, 2, [score |-> Number(20), climbed |-> Bool(FALSE)], <<r5, r3>>),
          Observation(0, 1, [score |-> Number(-5)], <<>>),
          Observation(0, 3, [climbed |-> Bool(TRUE)], <<r5>>) }

\* The i-th observation of a drawn list belongs to the match with key i.
ObservationLists ==
    { <<Observation(1, 1, b, rs)>> : b \in BreakdownPool, rs \in ObsReportLists }
    \cup UNION { { [i \in 1..n |-> [os[i] EXCEPT !.Key = i]] : os \in [1..n -> ObsPool] }
                 : n \in 0..MaxObservations }

InitEval ==
    /\ pc = "eval_call"
    /\ schema \in Schemas
    /\ observations \in ObservationLists
    /\ evals = <<>>
    /\ summary = <<>>
    /\ storeMatches = <<>> /\ reports = <<>> /\ teamToMatches = EmptyMap
    /\ HandlerIdle
    /\ ExtIdle

\* Every field of the schema is evaluated on every observation.
EvaluateFields ==
    /\ pc = "eval_call"
    /\ evals' = [f \in 1..Len(schema) |->
                    [o \in 1..Len(observations) |->
                        evaluate(schema, schema[f], observations[o])]]
    /\ pc' = "evaluated"
    /\ UNCHANGED <<aggVars, schema, observations, summary, handlerVars>>
    /\ UNCHANGED extVars

SummarizeOk ==
    /\ pc = "evaluated"
    /\ ~SummarizeTeam(schema, observations).err
    /\ summary' = SummarizeTeam(schema, observations).summary
    /\ pc' = "summarized"
    /\ UNCHANGED <<aggVars, schema, observations, evals, handlerVars>>
    /\ UNCHANGED extVars

SummarizeError ==
    /\ pc = "evaluated"
    /\ SummarizeTeam(schema, observations).err
    /\ pc' = "summarize_error"
    /\ UNCHANGED <<aggVars, evalVars, handlerVars>>
    /\ UNCHANGED extVars

NextEval == EvaluateFields \/ SummarizeOk \/ SummarizeError

SpecEval == InitEval /\ [][NextEval]_vars

(***************************************************************************)
(* The conversions of the statistics handlers.                             *)
(***************************************************************************)
\* store.Schema's field (a stat description) of a summary.SchemaField.
StatDescription(f) ==
    [FieldDescriptor |-> [Name |-> f.Name],
     ReportReference |-> f.ReportReference,
     TBAReference    |-> f.TBAReference,
     Sum             |-> f.Sum,
     AnyOf           |-> f.AnyOf]

\* The summary.SchemaField built from one stat description.
schemaField(statDescription) ==
    [Name            |-> statDescription.FieldDescriptor.Name,
     ReportReference |-> statDescription.ReportReference,
     TBAReference    |-> statDescription.TBAReference,
     Sum   |-> [k \in 1..Len(statDescription.Sum) |->
                   [Name |-> statDescription.Sum[k].Name]],
     AnyOf |-> [k \in 1..Len(statDescription.AnyOf) |->
                   [Name   |-> statDescription.AnyOf[k].Name,
                    Equals |-> statDescription.AnyOf[k].Equals]]]

\* The zero value of summary.SchemaField.
ZeroSchemaField ==
    [Name |-> "", ReportReference |-> "", TBAReference |-> "", Sum |-> <<>>, AnyOf |-> <<>>]

\* storeSummaryToSummarySchema with the slice made with the length, not the
\* capacity, of the store schema: the appended fields follow zero values.
storeSummaryToSummarySchema_MakeWithLen(storeSchema) ==
    [i \in 1..Len(storeSchema.Schema) |-> ZeroSchemaField]
        \o [i \in 1..Len(storeSchema.Schema) |-> schemaField(storeSchema.Schema[i])]

storeSummaryToSummarySchema(storeSchema) ==
    [i \in 1..Len(storeSchema.Schema) |-> schemaField(storeSchema.Schema[i])]

\* teamAnalysisFromSummary with Max left out of the struct literal.
teamAnalysisFromSummary_OmitsMax(sum, team) ==
    [Team    |-> team,
     Summary |-> [i \in 1..Len(sum) |->
                     [Name |-> sum[i].Name, Max |-> 0, Average |-> sum[i].Average]]]

teamAnalysisFromSummary(sum, team) ==
    [Team    |-> team,
     Summary |-> [i \in 1..Len(sum) |->
                     [Name |-> sum[i].Name, Max |-> sum[i].Max,
                      Average |-> sum[i].Average]]]

(***************************************************************************)
(* Spec: the handlers eventStats and matchTeamStats over a drawn store.    *)
(***************************************************************************)
\* Match lists of the store: a team in one or two matches, alliances of
\* unequal sizes, and a match with an empty red alliance.
HandlerLineups ==
    { [red |-> <<"B", "A">>, blue |-> <<"C">>],
      [red |-> <<"A">>,      blue |-> <<"B", "C">>],
      [red |-> <<>>,         blue |-> <<"A">>] }

HandlerMatchLists ==
    UNION { { [i \in 1..n |-> StoreMatch(i, ls[i])] : ls \in [1..n -> HandlerLineups] }
            : n \in 0..MaxMatches }

\* Report lists of the store, by the (team, match) keys of their reports.
HandlerReportKeys ==
    { <<>>,
      << <<"A", 1>> >>,
      << <<"A", 1>>, <<"A", 1>> >>,
      << <<"Z", 1>>, <<"A", 1>> >>,
      << <<"B", 2>>, <<"A", 1>>, <<"A", 2>> >> }

HandlerReportLists ==
    { [i \in 1..Len(ks) |->
          [TeamKey |-> ks[i][1], MatchKey |-> ks[i][2], Data |-> ReportData(i)]]
      : ks \in HandlerReportKeys }

\* Schemas of the store.
HandlerSchemas ==
    LET auto    == StatDescription(ReportRefField("auto", "auto"))
        score   == StatDescription(TBARefField("score", "score"))
        climbed == StatDescription(TBARefField("climbed", "climbed"))
        total   == StatDescription(SumField("total", <<"auto", "score">>))
        broken  == StatDescription(SumField("broken", <<"auto", "ghost">>))
    IN  { [Schema |-> <<>>],
          [Schema |-> <<score>>],
          [Schema |-> <<climbed, auto>>],
          [Schema |-> <<auto, score, total>>],
          [Schema |-> <<total, score, auto>>],
          [Schema |-> <<score, broken>>] }

Requests ==
    { [handler |-> "eventStats", matchKey |-> 0, teamKey |-> ""] }
    \cup { [handler |-> "matchTeamStats", matchKey |-> k, teamKey |-> t]
           : k \in {1, 2}, t \in {"A", "Z"} }

Init ==
    /\ pc = "start"
    /\ store \in [Matches : HandlerMatchLists, Reports : HandlerReportLists,
                  Schema : HandlerSchemas]
    /\ request \in Requests
    /\ event = [SchemaID |-> Nil]
    /\ fetched = <<>>
    /\ pending = {}
    /\ teamAnalyses = <<>>
    /\ response = NoResponse
    /\ storeMatches = <<>> /\ reports = <<>> /\ teamToMatches = EmptyMap
    /\ schema = <<>> /\ observations = <<>> /\ evals = <<>> /\ summary = <<>>
    /\ ExtIdle

\* ihttp.Error / ihttp.Respond followed by return.
Respond(status, body) ==
    /\ response' = [status |-> status, body |-> body]
    /\ pc' = "done"

\* s.Store.GetEventForRealm and the handling of its error.
GetEvent ==
    /\ pc = "start"
    /\ fetched' = Append(fetched, "event")
    /\ \/ /\ Respond(404, "error")
          /\ UNCHANGED event
       \/ /\ Respond(500, "error")
          /\ UNCHANGED event
       \/ /\ \E id \in {Nil, PointerTo(1)} : event' = [SchemaID |-> id]
          /\ pc' = "event"
          /\ UNCHANGED response
    /\ UNCHANGED <<aggVars, evalVars, store, request, pending, teamAnalyses>>
    /\ UNCHANGED extVars

\* CheckSchemaID with the return after the 400 response left out.
CheckSchemaID_NoReturn ==
    /\ pc = "event"
    /\ pc' = "schema_checked"
    /\ IF event.SchemaID = Nil
           THEN response' = [status |-> 400, body |-> "no schema found"]
           ELSE UNCHANGED response
    /\ UNCHANGED <<aggVars, evalVars, store, request, event, fetched, pending, teamAnalyses>>
    /\ UNCHANGED extVars

\* if event.SchemaID == nil { respond 400; return }
CheckSchemaID ==
    /\ pc = "event"
    /\ IF event.SchemaID = Nil
           THEN Respond(400, "no schema found")
           ELSE pc' = "schema_checked" /\ UNCHANGED response
    /\ UNCHANGED <<aggVars, evalVars, store, request, event, fetched, pending, teamAnalyses>>
    /\ UNCHANGED extVars

\* matchTeamStats: s.Store.GetMatchAnalysisInfoForRealm.
GetMatch ==
    /\ pc = "schema_checked"
    /\ request.handler = "matchTeamStats"
    /\ fetched' = Append(fetched, "match")
    /\ \/ /\ \A j \in 1..Len(store.Matches) : store.Matches[j].Key # request.matchKey
          /\ Respond(404, "error")
          /\ UNCHANGED storeMatches
       \/ /\ Respond(500, "error")
          /\ UNCHANGED storeMatches
       \/ /\ \E j \in 1..Len(store.Matches) :
                 /\ store.Matches[j].Key = request.matchKey
                 /\ storeMatches' = <<store.Matches[j]>>
          /\ pc' = "match"
          /\ UNCHANGED response
    /\ UNCHANGED <<reports, teamToMatches, evalVars, store, request, event, pending,
                   teamAnalyses>>
    /\ UNCHANGED extVars

\* The reports the store returns to the handler.
storeReports ==
    IF request.handler = "eventStats" THEN store.Reports
    ELSE LET IsOfMatchTeam(r) ==
                 r.MatchKey = request.matchKey /\ r.TeamKey = request.teamKey
         IN  SelectSeq(store.Reports, IsOfMatchTeam)

\* s.Store.GetEventReportsForRealm / s.Store.GetMatchTeamReportsForRealm.
GetReports ==
    /\ \/ pc = "schema_checked" /\ request.handler = "eventStats"
       \/ pc = "match"
    /\ fetched' = Append(fetched, "reports")
    /\ \/ /\ Respond(500, "error")
          /\ UNCHANGED reports
       \/ /\ reports' = storeReports
          /\ pc' = "reports"
          /\ UNCHANGED response
    /\ UNCHANGED <<storeMatches, teamToMatches, evalVars, store, request, event, pending,
                   teamAnalyses>>
    /\ UNCHANGED extVars

\* s.Store.GetSchemaByID.
GetSchema ==
    /\ pc = "reports"
    /\ fetched' = Append(fetched, "schema")
    /\ \/ Respond(404, "error")
       \/ Respond(500, "error")
       \/ /\ pc' = IF request.handler = "eventStats" THEN "schema" ELSE "analyze"
          /\ UNCHANGED response
    /\ UNCHANGED <<aggVars, evalVars, store, request, event, pending, teamAnalyses>>
    /\ UNCHANGED extVars

\* eventStats: s.Store.GetEventAnalysisInfoForRealm.
GetMatches ==
    /\ pc = "schema"
    /\ fetched' = Append(fetched, "matches")
    /\ \/ /\ Respond(500, "error")
          /\ UNCHANGED storeMatches
       \/ /\ storeMatches' = store.Matches
          /\ pc' = "analyze"
          /\ UNCHANGED response
    /\ UNCHANGED <<reports, teamToMatches, evalVars, store, request, event, pending,
                   teamAnalyses>>
    /\ UNCHANGED extVars

\* schema := storeSummaryToSummarySchema(storeSchema)
\* teamToMatches := selectTeamMatches(storeMatches, reports)
Analyze ==
    /\ pc = "analyze"
    /\ ~selectTeamMatches(storeMatches, reports).panic
    /\ schema' = storeSummaryToSummarySchema(store.Schema)
    /\ teamToMatches' = selectTeamMatches(storeMatches, reports).out
    /\ pending' = DOMAIN teamToMatches'
    /\ pc' = "summarize"
    /\ UNCHANGED <<storeMatches, reports, observations, evals, summary, store, request,
                   event, fetched, teamAnalyses, response>>
    /\ UNCHANGED extVars

\* selectTeamMatches panics: the handler is aborted without a response.
AnalyzePanic ==
    /\ pc = "analyze"
    /\ selectTeamMatches(storeMatches, reports).panic
    /\ schema' = storeSummaryToSummarySchema(store.Schema)
    /\ pc' = "panic"
    /\ UNCHANGED <<aggVars, observations, evals, summary, handlerVars>>
    /\ UNCHANGED extVars

\* eventStats: one iteration of the loop over teamToMatches, whose order Go
\* leaves open.
SummarizeNextTeam ==
    /\ pc = "summarize"
    /\ request.handler = "eventStats"
    /\ \E team \in pending :
           LET r == SummarizeTeam(schema, teamToMatches[team])
           IN  IF r.err
                   THEN /\ Respond(500, "error")
                        /\ UNCHANGED <<pending, teamAnalyses>>
                   ELSE /\ teamAnalyses' =
                               Append(teamAnalyses, teamAnalysisFromSummary(r.summary, team))
                        /\ pending' = pending \ {team}
                        /\ UNCHANGED <<pc, response>>
    /\ UNCHANGED <<aggVars, evalVars, store, request, event, fetched>>
    /\ UNCHANGED extVars

\* eventStats: ihttp.Respond(w, teamAnalyses, http.StatusOK)
RespondEventStats ==
    /\ pc = "summarize"
    /\ request.handler = "eventStats"
    /\ pending = {}
    /\ Respond(200, teamAnalyses)
    /\ UNCHANGED <<aggVars, evalVars, store, request, event, fetched, pending, teamAnalyses>>
    /\ UNCHANGED extVars

\* matchTeamStats: SummarizeTeam(schema, teamToMatches[teamKey]) and the response.
RespondMatchTeamStats ==
    /\ pc = "summarize"
    /\ request.handler = "matchTeamStats"
    /\ LET r == SummarizeTeam(schema, MapGet(teamToMatches, request.teamKey, <<>>))
       IN  IF r.err
               THEN Respond(500, "error")
               ELSE Respond(200, teamAnalysisFromSummary(r.summary, request.teamKey))
    /\ UNCHANGED <<aggVars, evalVars, store, request, event, fetched, pending, teamAnalyses>>
    /\ UNCHANGED extVars

Next ==
    \/ GetEvent
    \/ CheckSchemaID
    \/ GetMatch
    \/ GetReports
    \/ GetSchema
    \/ GetMatches
    \/ Analyze
    \/ AnalyzePanic
    \/ SummarizeNextTeam
    \/ RespondEventStats
    \/ RespondMatchTeamStats

Spec == Init /\ [][Next]_vars

(***************************************************************************)
(* SpecTwice: the handlers as in Spec, with an event-wide query that was   *)
(* answered 200 asked once more of the unchanged store.                    *)
(***************************************************************************)
\* The same eventStats request arrives again: the body of the first answer
\* is kept for comparison and the handler starts afresh.
Repeat ==
    /\ pc = "done"
    /\ request.handler = "eventStats"
    /\ response.status = 200
    /\ previous = Nil
    /\ previous' = PointerTo(response.body)
    /\ pc' = "start"
    /\ event' = [SchemaID |-> Nil]
    /\ fetched' = <<>>
    /\ pending' = {}
    /\ teamAnalyses' = <<>>
    /\ response' = NoResponse
    /\ storeMatches' = <<>> /\ reports' = <<>> /\ teamToMatches' = EmptyMap
    /\ schema' = <<>>
    /\ UNCHANGED <<observations, evals, summary, store, request, userVars, tbaVars,
                   authVars, matchTable>>

NextTwice == Next \/ Repeat

SpecTwice == Init /\ [][NextTwice]_vars

(***************************************************************************)
(* SpecTBA: tba.Service.GetMatches against a drawn provider response.      *)
(* Modelled from the expectations of TestGetMatches.                       *)
(***************************************************************************)
JSONNull == <<"Null">>

\* A match of the provider's JSON body.
ProviderMatch(key, redScore, red, blueScore, blue, predicted, actual) ==
    [key |-> key,
     alliances |-> [red  |-> [score |-> redScore, team_keys |-> red],
                    blue |-> [score |-> blueScore, team_keys |-> blue]],
     predicted_time |-> predicted,
     actual_time |-> actual]

\* Score pairs (red, blue) of the provider: played, unplayed as -1, unplayed
\* as null, and mixed.
ProviderScores ==
    { <<Number(220), Number(500)>>, <<Number(-1), Number(-1)>>,
      <<JSONNull, JSONNull>>, <<Number(0), Number(-1)>>,
      <<JSONNull, Number(7)>>, <<Number(-2), Number(220)>>,
      <<Number(1), Number(-1)>> }

ProviderMatchPool ==
    { ProviderMatch(0, sc[1], <<"frc254", "frc1234", "frc00">>,
                    sc[2], <<"frc2733", "frc9876", "frc1">>, Number(100), Number(120))
        : sc \in ProviderScores }
    \cup { ProviderMatch(0, sc[1], <<"frc2", "frc1", "frc0">>,
                         sc[2], <<"frc2", "frc7">>, Number(200), JSONNull)
             : sc \in ProviderScores }

\* The i-th match of a body has the key i.
ProviderBodies ==
    UNION { { [i \in 1..n |-> [ms[i] EXCEPT !.key = i]] : ms \in [1..n -> ProviderMatchPool] }
            : n \in 0..MaxProviderMatches }

\* Decoding a JSON number or null into a *int.
decodeInt(v) == IF v = JSONNull THEN Nil ELSE PointerTo(v[2])

\* allianceScore with -1 passed through as a score.
allianceScore_KeepsMinusOne(score) == score

\* The score of an alliance: nil when the provider gave null or -1.
allianceScore(score) ==
    IF score = Nil \/ score = PointerTo(-1) THEN Nil ELSE score

\* A *store.UnixTime of a JSON unix time or null.
unixPointer(v) == IF v = JSONNull THEN Nil ELSE PointerTo([Unix |-> v[2]])

\* The store.Match built from one match of the provider.
tbaStoreMatch(eventID, tbaMatch) ==
    [ID            |-> tbaMatch.key,
     EventID       |-> eventID,
     PredictedTime |-> unixPointer(tbaMatch.predicted_time),
     ActualTime    |-> unixPointer(tbaMatch.actual_time),
     RedScore      |-> allianceScore(decodeInt(tbaMatch.alliances.red.score)),
     BlueScore     |-> allianceScore(decodeInt(tbaMatch.alliances.blue.score)),
     RedAlliance   |-> tbaMatch.alliances.red.team_keys,
     BlueAlliance  |-> tbaMatch.alliances.blue.team_keys]

InitTBA ==
    /\ pc = "tba_call"
    /\ provider \in [status : {200, 401, 500}, body : ProviderBodies]
    /\ request \in [eventID : {"2018alhu"}]
    /\ tbaResult = <<>>
    /\ storeMatches = <<>> /\ reports = <<>> /\ teamToMatches = EmptyMap
    /\ schema = <<>> /\ observations = <<>> /\ evals = <<>> /\ summary = <<>>
    /\ store = <<>> /\ event = <<>> /\ fetched = <<>>
    /\ pending = {} /\ teamAnalyses = <<>> /\ response = NoResponse
    /\ previous = Nil /\ users = EmptyMap /\ served = 0
    /\ now = 0 /\ refreshTokens = {} /\ matchTable = EmptyMap

\* s.GetMatches(eventID) when the provider answers 200.
TBAGetMatchesOk ==
    /\ pc = "tba_call"
    /\ provider.status = 200
    /\ tbaResult' = [matches |-> [i \in 1..Len(provider.body) |->
                                    tbaStoreMatch(request.eventID, provider.body[i])],
                     err |-> FALSE]
    /\ pc' = "tba_returned"
    /\ UNCHANGED <<aggVars, evalVars, handlerVars, previous, userVars, provider,
                   authVars, matchTable>>

\* s.GetMatches(eventID) when the provider answers anything else.
TBAGetMatchesError ==
    /\ pc = "tba_call"
    /\ provider.status # 200
    /\ tbaResult' = [matches |-> <<>>, err |-> TRUE]
    /\ pc' = "tba_returned"
    /\ UNCHANGED <<aggVars, evalVars, handlerVars, previous, userVars, provider,
                   authVars, matchTable>>

NextTBA == TBAGetMatchesOk \/ TBAGetMatchesError

SpecTBA == InitTBA /\ [][NextTBA]_vars

(***************************************************************************)
(* SpecUsers: the user handlers (createUserHandler, getUserByIDHandler,    *)
(* patchUserHandler) over a drawn users table.  Each request is handled in *)
(* one step; request and response hold the request last handled and its    *)
(* response.                                                               *)
(***************************************************************************)
\* store.Roles
Roles(super, admin, verified) ==
    [IsSuperAdmin |-> super, IsAdmin |-> admin, IsVerified |-> verified]

\* The zero value store.Roles{}.
NoRoles == Roles(FALSE, FALSE, FALSE)

\* The realms table of the store.
Realms == {1, 2}

\* The length of a username, for the validator's gte=4.
usernameLength(name) ==
    IF name = "al" THEN 2 ELSE IF name \in {"dave", "root"} THEN 4 ELSE 5

\* The length of a password, for the validator's gte=8.
passwordLength(password) == IF password = "short" THEN 5 ELSE 9

\* bcrypt.GenerateFromPassword
hash(password) == <<"bcrypt", password>>

\* store.User; PasswordChanged is a time in ticks.
User(username, realmID, roles, firstName, password) ==
    [Username |-> username, RealmID |-> realmID, Roles |-> roles,
     FirstName |-> firstName, HashedPassword |-> hash(password),
     PasswordChanged |-> 0]

\* Users tables the store starts with: the users 1, 2 and 3, when stored,
\* are alice and bobby of realm 1 and root of realm 2.
UserTables ==
    LET alice == User("alice", 1, Roles(FALSE, FALSE, TRUE), "Alice", "alicepass")
        bobby == User("bobby", 1, Roles(FALSE, TRUE, TRUE), "Bobby", "bobbypass")
        root  == User("root", 2, Roles(TRUE, TRUE, TRUE), "Root", "rootpass1")
    IN  { EmptyMap,
          [i \in {1, 2} |-> IF i = 1 THEN alice ELSE bobby],
          [i \in {2, 3} |-> IF i = 2 THEN bobby ELSE root],
          [i \in {1, 2, 3} |-> IF i = 1 THEN alice ELSE IF i = 2 THEN bobby ELSE root] }

\* The request context the authentication middleware leaves: subject, roles
\* and realm of the access token, or nothing when there is no valid token.
Context(subject, roles, realm) == [subject |-> subject, roles |-> roles, realm |-> realm]

Anonymous == Context(Nil, NoRoles, Nil)

Requesters ==
    { Anonymous,
      Context(PointerTo(1), Roles(FALSE, FALSE, TRUE), PointerTo(1)),
      Context(PointerTo(2), Roles(FALSE, TRUE, TRUE), PointerTo(1)),
      Context(PointerTo(3), Roles(TRUE, TRUE, TRUE), PointerTo(2)) }

\* ihttp.GetSubject, ihttp.GetRoles, ihttp.GetRealmID
GetSubject(ctx) ==
    IF ctx.subject = Nil THEN [err |-> TRUE, id |-> 0] ELSE [err |-> FALSE, id |-> ctx.subject[1]]

GetRoles(ctx) == ctx.roles

GetRealmID(ctx) ==
    IF ctx.realm = Nil THEN [err |-> TRUE, id |-> 0] ELSE [err |-> FALSE, id |-> ctx.realm[1]]

\* realmMismatch with every realm accepted.
realmMismatch_Never(ctx, realmID) == FALSE

\* if realmID, err := ihttp.GetRealmID(r); err != nil || realmID != ...
realmMismatch(ctx, realmID) ==
    GetRealmID(ctx).err \/ GetRealmID(ctx).id # realmID

\* mux.Vars(r)["id"] and strconv.ParseInt of it.
PathIDs == { ToString(i) : i \in 1..MaxUsers } \cup { "x" }

ParseInt(str) ==
    IF \E i \in 1..MaxUsers : ToString(i) = str
        THEN [err |-> FALSE, n |-> CHOOSE i \in 1..MaxUsers : ToString(i) = str]
        ELSE [err |-> TRUE, n |-> 0]

\* A request body that does not decode.
Malformed == [malformed |-> TRUE]

\* s.Store.GetUserByID: store.ErrNoResults when there is no such user.
GetUserByID(us, id) ==
    IF id \in DOMAIN us THEN [err |-> "", user |-> us[id]]
    ELSE [err |-> "ErrNoResults", user |-> <<>>]

\* s.Store.CheckSimilarUsernameExists: whether a user other than except
\* (a *int64) has the username.
CheckSimilarUsernameExists(us, username, except) ==
    \E id \in DOMAIN us :
        /\ us[id].Username = username
        /\ except = Nil \/ except[1] # id

\* The id the store gives the next user created.
nextUserID(us) ==
    IF DOMAIN us = {} THEN 1
    ELSE (CHOOSE i \in DOMAIN us : \A j \in DOMAIN us : j <= i) + 1

\* s.Store.CreateUser; the row's password_changed is the time of creation.
CreateUser(us, u) ==
    IF \E id \in DOMAIN us : us[id].Username = u.Username
        THEN [err |-> "ErrExists", users |-> us]
    ELSE IF u.RealmID \notin Realms
        THEN [err |-> "ErrFKeyViolation", users |-> us]
    ELSE [err |-> "",
          users |-> MapPut(us, nextUserID(us), [u EXCEPT !.PasswordChanged = now])]

\* s.Store.PatchUser: the fields given (not nil) replace the stored ones; a
\* new password sets password_changed to the time of the change.
PatchUser(us, p) ==
    IF p.ID \notin DOMAIN us THEN [err |-> "ErrNoResults", users |-> us]
    ELSE LET old == us[p.ID]
             new == [Username  |-> IF p.Username = Nil THEN old.Username ELSE p.Username[1],
                     RealmID   |-> old.RealmID,
                     Roles     |-> IF p.Roles = Nil THEN old.Roles ELSE p.Roles[1],
                     FirstName |-> IF p.FirstName = Nil THEN old.FirstName ELSE p.FirstName[1],
                     HashedPassword |-> IF p.HashedPassword = Nil THEN old.HashedPassword
                                        ELSE p.HashedPassword[1],
                     PasswordChanged |-> IF p.HashedPassword = Nil
                                             THEN old.PasswordChanged ELSE now]
         IN  [err |-> "", users |-> MapPut(us, p.ID, new)]

\* The bodies of POST /users (requestUser); a RealmID of 0 is a missing one.
RequestUser(username, password, realmID, firstName, roles) ==
    [Username |-> username, Password |-> password, RealmID |-> realmID,
     FirstName |-> firstName, Roles |-> roles]

CreateBodies ==
    { Malformed,
      RequestUser("dave", "davepass1", 1, "Dave", Roles(TRUE, TRUE, TRUE)),
      RequestUser("dave", "davepass1", 2, "Dave", Roles(TRUE, TRUE, TRUE)),
      RequestUser("alice", "alicepass", 1, "Alice", NoRoles),
      RequestUser("dave", "davepass1", 0, "Dave", NoRoles),
      RequestUser("dave", "davepass1", 3, "Dave", NoRoles),
      RequestUser("al", "alpasswd1", 1, "Al", NoRoles) }

\* validate.Struct(ru) for requestUser
validRequestUser(ru) ==
    /\ usernameLength(ru.Username) >= 4
    /\ usernameLength(ru.Username) <= 32
    /\ passwordLength(ru.Password) >= 8
    /\ passwordLength(ru.Password) <= 128
    /\ ru.RealmID # 0
    /\ ru.FirstName # ""

\* createRoles without "Only super-admins can create super-admins".
createRoles_KeepsSuperAdmin(ctx, ru) ==
    LET roles == GetRoles(ctx)
        r1 == IF ~roles.IsAdmin /\ ~roles.IsSuperAdmin THEN NoRoles ELSE ru.Roles
    IN  IF ~roles.IsSuperAdmin /\ realmMismatch(ctx, ru.RealmID)
            THEN [r1 EXCEPT !.IsVerified = FALSE, !.IsAdmin = FALSE]
            ELSE r1

\* createRoles without the check of the realm.
createRoles_NoRealmCheck(ctx, ru) ==
    LET roles == GetRoles(ctx)
        r1 == IF ~roles.IsAdmin /\ ~roles.IsSuperAdmin THEN NoRoles ELSE ru.Roles
    IN  IF ~roles.IsSuperAdmin THEN [r1 EXCEPT !.IsSuperAdmin = FALSE] ELSE r1

\* The roles createUserHandler stores for the request ru.
createRoles(ctx, ru) ==
    LET roles == GetRoles(ctx)
        r1 == IF ~roles.IsAdmin /\ ~roles.IsSuperAdmin THEN NoRoles ELSE ru.Roles
        r2 == IF ~roles.IsSuperAdmin THEN [r1 EXCEPT !.IsSuperAdmin = FALSE] ELSE r1
    IN  IF ~roles.IsSuperAdmin /\ realmMismatch(ctx, ru.RealmID)
            THEN [r2 EXCEPT !.IsVerified = FALSE, !.IsAdmin = FALSE]
            ELSE r2

\* The outcome of a user handler: the response and the users table after.
Outcome(status, body, us) == [status |-> status, body |-> body, users |-> us]

\* createUserHandler; dbError: the store call made first fails.
createUser(us, ctx, body, dbError) ==
    IF body = Malformed THEN Outcome(422, <<>>, us)
    ELSE LET ru == [body EXCEPT !.Roles = createRoles(ctx, body)]
         IN  IF ~validRequestUser(ru) THEN Outcome(422, "error", us)
             ELSE IF dbError THEN Outcome(500, <<>>, us)
             ELSE IF CheckSimilarUsernameExists(us, ru.Username, Nil)
                 THEN Outcome(409, <<>>, us)
             ELSE LET u == [Username |-> ru.Username, RealmID |-> ru.RealmID,
                            Roles |-> ru.Roles, FirstName |-> ru.FirstName,
                            HashedPassword |-> hash(ru.Password),
                            PasswordChanged |-> 0]
                      r == CreateUser(us, u)
                  IN  IF r.err = "ErrExists" THEN Outcome(409, <<>>, us)
                      ELSE IF r.err = "ErrFKeyViolation" THEN Outcome(422, <<>>, us)
                      ELSE Outcome(201, <<>>, r.users)

\* getUserByIDHandler
getUserByID(us, ctx, pathID, dbError) ==
    LET id      == ParseInt(pathID)
        realmID == GetSubject(ctx)
        roles   == GetRoles(ctx)
        r       == GetUserByID(us, id.n)
    IN  IF id.err THEN Outcome(400, <<>>, us)
        ELSE IF realmID.err THEN Outcome(403, <<>>, us)
        ELSE IF dbError THEN Outcome(500, <<>>, us)
        ELSE IF r.err = "ErrNoResults" THEN Outcome(404, <<>>, us)
        ELSE IF /\ ~roles.IsSuperAdmin
                /\ realmID.id # r.user.RealmID
                /\ realmMismatch(ctx, r.user.RealmID)
            THEN Outcome(404, <<>>, us)
        ELSE Outcome(200, r.user, us)

\* The bodies of PATCH /users/{id} (patchUser): nil for a field left out.
PatchBody(username, password, firstName, roles) ==
    [Username |-> username, Password |-> password, FirstName |-> firstName,
     Roles |-> roles]

PatchBodies ==
    { Malformed,
      PatchBody(Nil, Nil, Nil, PointerTo(Roles(TRUE, TRUE, TRUE))),
      PatchBody(Nil, PointerTo("newpasswd"), PointerTo("Pat"), Nil),
      PatchBody(PointerTo("alice"), Nil, Nil, PointerTo(NoRoles)) }

\* validate.Struct(ru) for patchUser
validPatchUser(ru) ==
    /\ ru.Username # Nil =>
           /\ usernameLength(ru.Username[1]) >= 4
           /\ usernameLength(ru.Username[1]) <= 32
    /\ ru.Password # Nil =>
           /\ passwordLength(ru.Password[1]) >= 8
           /\ passwordLength(ru.Password[1]) <= 128

\* The roles (a *store.Roles) patchUserHandler hands to the store.
patchRoles(ctx, ruRoles) ==
    LET roles == GetRoles(ctx)
        r1 == IF ~roles.IsAdmin /\ ~roles.IsSuperAdmin THEN Nil ELSE ruRoles
    IN  IF r1 # Nil /\ ~roles.IsSuperAdmin
            THEN PointerTo([r1[1] EXCEPT !.IsSuperAdmin = FALSE])
            ELSE r1

\* patchUserHandler; dbError: the store call made first fails.
patchUser(us, ctx, pathID, body, dbError) ==
    LET targetID  == ParseInt(pathID)
        subjectID == GetSubject(ctx)
        roles     == GetRoles(ctx)
        checked   == targetID.n # subjectID.id /\ ~roles.IsSuperAdmin
        target    == GetUserByID(us, targetID.n)
    IN  IF targetID.err THEN Outcome(400, <<>>, us)
        ELSE IF subjectID.err THEN Outcome(403, <<>>, us)
        ELSE IF targetID.n # subjectID.id /\ ~roles.IsAdmin /\ ~roles.IsSuperAdmin
            THEN Outcome(403, <<>>, us)
        ELSE IF body = Malformed THEN Outcome(422, <<>>, us)
        ELSE IF checked /\ (dbError \/ target.err # "") THEN Outcome(500, <<>>, us)
        ELSE IF checked /\ realmMismatch(ctx, target.user.RealmID)
            THEN Outcome(403, <<>>, us)
        ELSE LET ru == [body EXCEPT !.Roles = patchRoles(ctx, body.Roles)]
             IN  IF ~validPatchUser(ru) THEN Outcome(422, "error", us)
                 ELSE IF ru.Username # Nil /\ ~checked /\ dbError
                     THEN Outcome(500, <<>>, us)
                 ELSE IF /\ ru.Username # Nil
                         /\ CheckSimilarUsernameExists(us, ru.Username[1],
                                                       PointerTo(targetID.n))
                     THEN Outcome(409, "error", us)
                 ELSE IF ru.Username = Nil /\ ~checked /\ dbError
                     THEN Outcome(500, <<>>, us)
                 ELSE LET u == [ID |-> targetID.n, Username |-> ru.Username,
                                Roles |-> ru.Roles, FirstName |-> ru.FirstName,
                                HashedPassword |->
                                    IF ru.Password = Nil THEN Nil
                                    ELSE PointerTo(hash(ru.Password[1]))]
                          r == PatchUser(us, u)
                      IN  IF r.err = "ErrNoResults" THEN Outcome(404, <<>>, us)
                          ELSE Outcome(204, <<>>, r.users)

UserRequest(handler, ctx, id, body) ==
    [handler |-> handler, ctx |-> ctx, id |-> id, body |-> body]

InitUsers ==
    /\ pc = "users"
    /\ users \in UserTables
    /\ served = 0
    /\ request = <<>>
    /\ response = NoResponse
    /\ storeMatches = <<>> /\ reports = <<>> /\ teamToMatches = EmptyMap
    /\ schema = <<>> /\ observations = <<>> /\ evals = <<>> /\ summary = <<>>
    /\ store = <<>> /\ event = <<>> /\ fetched = <<>>
    /\ pending = {} /\ teamAnalyses = <<>>
    /\ previous = Nil /\ provider = <<>> /\ tbaResult = <<>>
    /\ now = 0 /\ refreshTokens = {} /\ matchTable = EmptyMap

\* What a user handler's step writes.
Handled(req, out) ==
    /\ request' = req
    /\ response' = [status |-> out.status, body |-> out.body]
    /\ users' = out.users
    /\ served' = served + 1
    /\ UNCHANGED <<pc, aggVars, evalVars, store, event, fetched, pending, teamAnalyses,
                   previous, tbaVars, authVars, matchTable>>

\* POST /users
CreateUserRequest ==
    /\ pc = "users"
    /\ served < MaxRequests
    /\ nextUserID(users) <= MaxUsers
    /\ \E ctx \in Requesters : \E body \in CreateBodies : \E dbError \in BOOLEAN :
           Handled(UserRequest("createUser", ctx, "", body),
                   createUser(users, ctx, body, dbError))

\* GET /users/{id}
GetUserByIDRequest ==
    /\ pc = "users"
    /\ served < MaxRequests
    /\ \E ctx \in Requesters : \E id \in PathIDs : \E dbError \in BOOLEAN :
           Handled(UserRequest("getUserByID", ctx, id, <<>>),
                   getUserByID(users, ctx, id, dbError))

\* PATCH /users/{id}
PatchUserRequest ==
    /\ pc = "users"
    /\ served < MaxRequests
    /\ \E ctx \in Requesters : \E id \in PathIDs : \E body \in PatchBodies :
       \E dbError \in BOOLEAN :
           Handled(UserRequest("patchUser", ctx, id, body),
                   patchUser(users, ctx, id, body, dbError))

NextUsers == CreateUserRequest \/ GetUserByIDRequest \/ PatchUserRequest

SpecUsers == InitUsers /\ [][NextUsers]_vars

(***************************************************************************)
(* SpecAuth: authenticateHandler, refreshHandler, changes of password      *)
(* (patchUserHandler) and deleteUserHandler over a drawn users table.      *)
(* Every request is handled in one step at the time now, and the clock     *)
(* moves on by one tick.                                                   *)
(***************************************************************************)
\* The resolution of the clock: time.Time is finer than the second.
TicksPerSecond == 3

\* time.Time.Unix(): the whole seconds of a time.
Unix(t) == t \div TicksPerSecond

\* accessTokenDuration and refreshTokenDuration, in ticks.
accessTokenDuration == 5 * 60 * TicksPerSecond

refreshTokenDuration == 4 * 7 * 24 * 3600 * TicksPerSecond

\* strconv.FormatInt(id, 10)
FormatInt(id) == ToString(id)

\* validate.Struct(ru) for baseUser
validBaseUser(ru) ==
    /\ usernameLength(ru.Username) >= 4
    /\ usernameLength(ru.Username) <= 32
    /\ passwordLength(ru.Password) >= 8
    /\ passwordLength(ru.Password) <= 128

\* The bodies of POST /authenticate (baseUser).
BaseUser(username, password) == [Username |-> username, Password |-> password]

AuthBodies ==
    { Malformed,
      BaseUser("alice", "alicepass"),
      BaseUser("alice", "bobbypass"),
      BaseUser("alice", "newpasswd"),
      BaseUser("carol", "alicepass"),
      BaseUser("al", "alicepass"),
      BaseUser("admin", "short") }

\* userStore.GetUserByUsername: store.ErrNoResults when there is no such user.
GetUserByUsername(us, username) ==
    IF \E id \in DOMAIN us : us[id].Username = username
        THEN LET id == CHOOSE i \in DOMAIN us : us[i].Username = username
             IN  [err |-> "", id |-> id, user |-> us[id]]
        ELSE [err |-> "ErrNoResults", id |-> 0, user |-> <<>>]

\* bcrypt.CompareHashAndPassword
CompareHashAndPassword(hashedPassword, password) ==
    IF hashedPassword = hash(password) THEN "" ELSE "ErrMismatchedHashAndPassword"

\* generateAccessToken: the claims of the signed access token.
generateAccessToken(id, user, expires) ==
    [ExpiresAt |-> Unix(expires), Subject |-> FormatInt(id),
     Roles |-> user.Roles, RealmID |-> user.RealmID]

\* ihttp.RefreshClaims: the claims of the signed refresh token.
RefreshClaims(expiresAt, subject, passwordChanged) ==
    [ExpiresAt |-> expiresAt, Subject |-> subject, PasswordChanged |-> passwordChanged]

\* authenticateHandler without the comparison of the password.
authenticate_NoCompare(us, body, dbError) ==
    IF body = Malformed THEN Outcome(422, <<>>, us)
    ELSE IF ~validBaseUser(body) THEN Outcome(422, "error", us)
    ELSE LET r == GetUserByUsername(us, body.Username)
         IN  IF dbError THEN Outcome(500, <<>>, us)
             ELSE IF r.err = "ErrNoResults" THEN Outcome(401, <<>>, us)
             ELSE Outcome(200,
                          [accessToken  |->
                               generateAccessToken(r.id, r.user, now + accessTokenDuration),
                           refreshToken |->
                               RefreshClaims(Unix(now + refreshTokenDuration),
                                             FormatInt(r.id),
                                             Unix(r.user.PasswordChanged))],
                          us)

\* authenticateHandler; dbError: the store call fails.
authenticate(us, body, dbError) ==
    IF body = Malformed THEN Outcome(422, <<>>, us)
    ELSE IF ~validBaseUser(body) THEN Outcome(422, "error", us)
    ELSE LET r == GetUserByUsername(us, body.Username)
         IN  IF dbError THEN Outcome(500, <<>>, us)
             ELSE IF r.err = "ErrNoResults" THEN Outcome(401, <<>>, us)
             ELSE IF CompareHashAndPassword(r.user.HashedPassword, body.Password)
                         = "ErrMismatchedHashAndPassword"
                 THEN Outcome(401, <<>>, us)
             ELSE Outcome(200,
                          [accessToken  |->
                               generateAccessToken(r.id, r.user, now + accessTokenDuration),
                           refreshToken |->
                               RefreshClaims(Unix(now + refreshTokenDuration),
                                             FormatInt(r.id),
                                             Unix(r.user.PasswordChanged))],
                          us)

\* A refresh token that is no token signed with the secret.
Garbage == [garbage |-> TRUE]

\* The bodies of POST /refresh (refreshRequest).
RefreshRequest(token) == [RefreshToken |-> token]

\* jwt.ParseWithClaims and token.Valid: the signature and the expiry.
validToken(token) == token # Garbage /\ Unix(now) <= token.ExpiresAt

\* refreshHandler; dbError: the store call fails.
refresh(us, body, dbError) ==
    IF body = Malformed THEN Outcome(422, <<>>, us)
    ELSE IF ~validToken(body.RefreshToken) THEN Outcome(401, <<>>, us)
    ELSE LET claims == body.RefreshToken
             userID == ParseInt(claims.Subject)
             r      == GetUserByID(us, userID.n)
         IN  IF userID.err THEN Outcome(401, <<>>, us)
             ELSE IF dbError THEN Outcome(500, <<>>, us)
             ELSE IF r.err = "ErrNoResults" THEN Outcome(401, <<>>, us)
             ELSE IF Unix(r.user.PasswordChanged) # claims.PasswordChanged
                 THEN Outcome(403, <<>>, us)
             ELSE Outcome(200,
                          [accessToken |->
                               generateAccessToken(userID.n, r.user,
                                                   now + accessTokenDuration)],
                          us)

\* The bodies of PATCH /users/{id} that change the password.
PasswordBodies ==
    { PatchBody(Nil, PointerTo("newpasswd"), Nil, Nil),
      PatchBody(Nil, PointerTo("short"), Nil, Nil) }

\* s.Store.DeleteUserByID: store.ErrNoResults when there is no such user.
DeleteUserByID(us, id) ==
    IF id \notin DOMAIN us THEN [err |-> "ErrNoResults", users |-> us]
    ELSE [err |-> "", users |-> [i \in DOMAIN us \ {id} |-> us[i]]]

\* s.Store.DeleteUserByIDRealm: store.ErrNoResults when the realm holds no
\* such user.
DeleteUserByIDRealm(us, id, realmID) ==
    IF id \notin DOMAIN us \/ us[id].RealmID # realmID
        THEN [err |-> "ErrNoResults", users |-> us]
    ELSE [err |-> "", users |-> [i \in DOMAIN us \ {id} |-> us[i]]]

\* deleteUserHandler without the check of the requester's roles.
deleteUser_NoRoleCheck(us, ctx, pathID, dbError) ==
    LET id               == ParseInt(pathID)
        requesterSubject == GetSubject(ctx)
        roles            == GetRoles(ctx)
        realmID          == GetRealmID(ctx)
        r == IF roles.IsSuperAdmin THEN DeleteUserByID(us, id.n)
             ELSE DeleteUserByIDRealm(us, id.n, realmID.id)
    IN  IF id.err THEN Outcome(400, <<>>, us)
        ELSE IF requesterSubject.err THEN Outcome(403, <<>>, us)
        ELSE IF ~roles.IsSuperAdmin /\ realmID.err THEN Outcome(403, <<>>, us)
        ELSE IF dbError THEN Outcome(500, <<>>, us)
        ELSE IF r.err = "ErrNoResults" THEN Outcome(404, <<>>, us)
        ELSE Outcome(204, <<>>, r.users)

\* deleteUserHandler; dbError: the store call fails.
deleteUser(us, ctx, pathID, dbError) ==
    LET id               == ParseInt(pathID)
        requesterSubject == GetSubject(ctx)
        roles            == GetRoles(ctx)
        realmID          == GetRealmID(ctx)
        r == IF roles.IsSuperAdmin THEN DeleteUserByID(us, id.n)
             ELSE DeleteUserByIDRealm(us, id.n, realmID.id)
    IN  IF id.err THEN Outcome(400, <<>>, us)
        ELSE IF requesterSubject.err THEN Outcome(403, <<>>, us)
        ELSE IF id.n # requesterSubject.id /\ ~roles.IsAdmin /\ ~roles.IsSuperAdmin
            THEN Outcome(403, <<>>, us)
        ELSE IF ~roles.IsSuperAdmin /\ realmID.err THEN Outcome(403, <<>>, us)
        ELSE IF dbError THEN Outcome(500, <<>>, us)
        ELSE IF r.err = "ErrNoResults" THEN Outcome(404, <<>>, us)
        ELSE Outcome(204, <<>>, r.users)

\* The users table after run() has created the seed user of the
\* configuration, whose username and password no validator has seen.
SeedTables ==
    { [i \in {1} |-> User("admin", 1, Roles(TRUE, TRUE, TRUE), "Admin", "short")] }

\* A request of SpecAuth; dbError: the store call fails.
AuthRequest(handler, ctx, id, body, dbError) ==
    [handler |-> handler, ctx |-> ctx, id |-> id, body |-> body, dbError |-> dbError]

\* The users table is drawn as in SpecUsers, or holds the seed user; its
\* users were created at tick 0, and the first request arrives at tick 1
\* or 2.
InitAuth ==
    /\ pc = "auth"
    /\ users \in UserTables \cup SeedTables
    /\ served = 0
    /\ now \in {1, 2}
    /\ refreshTokens = {}
    /\ request = <<>>
    /\ response = NoResponse
    /\ storeMatches = <<>> /\ reports = <<>> /\ teamToMatches = EmptyMap
    /\ schema = <<>> /\ observations = <<>> /\ evals = <<>> /\ summary = <<>>
    /\ store = <<>> /\ event = <<>> /\ fetched = <<>>
    /\ pending = {} /\ teamAnalyses = <<>>
    /\ previous = Nil /\ provider = <<>> /\ tbaResult = <<>>
    /\ matchTable = EmptyMap

\* What a step of SpecAuth writes; issued: the refresh tokens it issues.
HandledAt(req, out, issued) ==
    /\ request' = req
    /\ response' = [status |-> out.status, body |-> out.body]
    /\ users' = out.users
    /\ served' = served + 1
    /\ refreshTokens' = refreshTokens \cup { [token |-> t, issuedAt |-> now] : t \in issued }
    /\ now' = now + 1
    /\ UNCHANGED <<pc, aggVars, evalVars, store, event, fetched, pending, teamAnalyses,
                   previous, tbaVars, matchTable>>

\* POST /authenticate
AuthenticateRequest ==
    /\ pc = "auth"
    /\ served < MaxAuthRequests
    /\ \E body \in AuthBodies : \E dbError \in BOOLEAN :
           LET out == authenticate(users, body, dbError)
           IN  HandledAt(AuthRequest("authenticate", Anonymous, "", body, dbError), out,
                         IF out.status = 200 THEN {out.body.refreshToken} ELSE {})

\* POST /refresh with a token issued before, or with no token at all.
RefreshTokenRequest ==
    /\ pc = "auth"
    /\ served < MaxAuthRequests
    /\ \E body \in { Malformed, RefreshRequest(Garbage) }
                   \cup { RefreshRequest(t.token) : t \in refreshTokens } :
       \E dbError \in BOOLEAN :
           HandledAt(AuthRequest("refresh", Anonymous, "", body, dbError),
                     refresh(users, body, dbError), {})

\* PATCH /users/{id} by the user id, with a new password.
ChangePasswordRequest ==
    /\ pc = "auth"
    /\ served < MaxAuthRequests
    /\ \E ctx \in Requesters \ {Anonymous} : \E body \in PasswordBodies :
           HandledAt(AuthRequest("patchUser", ctx, FormatInt(ctx.subject[1]), body, FALSE),
                     patchUser(users, ctx, FormatInt(ctx.subject[1]), body, FALSE), {})

\* DELETE /users/{id}
DeleteUserRequest ==
    /\ pc = "auth"
    /\ served < MaxAuthRequests
    /\ \E ctx \in Requesters : \E id \in PathIDs : \E dbError \in BOOLEAN :
           HandledAt(AuthRequest("deleteUser", ctx, id, <<>>, dbError),
                     deleteUser(users, ctx, id, dbError), {})

NextAuth ==
    \/ AuthenticateRequest
    \/ RefreshTokenRequest
    \/ ChangePasswordRequest
    \/ DeleteUserRequest

SpecAuth == InitAuth /\ [][NextAuth]_vars

(***************************************************************************)
(* SpecSync: the store's UpdateTBAMatches followed by MarkMatchesDeleted,  *)
(* as the refresh of an event from the provider calls them, over a drawn   *)
(* matches table.                                                          *)
(***************************************************************************)
\* The match keys: the event's key followed by the match's own, as in
\* fmt.Sprintf("%s_%s", eventKey, partialMatchKey).
MatchKey(eventKey, n) == <<eventKey, n>>

EventKeys == {"e1", "e2"}

\* store.Match, with the columns key, event_key, red_score, tba_deleted and
\* the red alliance.
TableMatch(key, eventKey, redScore, redAlliance, tbaDeleted) ==
    [Key |-> key, EventKey |-> eventKey, RedScore |-> redScore,
     RedAlliance |-> redAlliance, TBADeleted |-> tbaDeleted]

\* The keys the matches table may hold: those of event e1, and one of e2.
TableKeys ==
    { MatchKey("e1", n) : n \in 1..MaxSyncMatches } \cup { MatchKey("e2", 1) }

\* The rows a key may have in the drawn table: played, or marked deleted.
TableRows(key) ==
    { TableMatch(key, key[1], PointerTo(10), <<"frc1">>, FALSE),
      TableMatch(key, key[1], Nil, <<"frc1">>, TRUE) }

MatchTables ==
    UNION { { [k \in keys |-> f[k]] : f \in { g \in [keys -> UNION { TableRows(k) : k \in keys }] :
                                              \A k \in keys : g[k] \in TableRows(k) } }
            : keys \in SUBSET TableKeys }

\* The matches the provider client hands over for the event: distinct keys
\* of the event, tba_deleted left at its zero value.
GivenMatches(eventKey) ==
    LET pool == { TableMatch(MatchKey(eventKey, n), eventKey, s, <<"frc2", "frc3">>, FALSE)
                    : n \in 1..MaxSyncMatches, s \in {Nil, PointerTo(20)} }
    IN  UNION { { ms \in [1..n -> pool] :
                    \A i, j \in 1..n : i # j => ms[i].Key # ms[j].Key }
                : n \in 0..MaxSyncMatches }

\* One execution of the prepared upsert and AlliancesUpsertTx: a new row
\* takes every column of the match, an existing one takes every column but
\* tba_deleted, which becomes false.
upsert(table, match) ==
    IF match.Key \in DOMAIN table
        THEN MapPut(table, match.Key, [match EXCEPT !.TBADeleted = FALSE])
        ELSE MapPut(table, match.Key, match)

\* MarkMatchesDeleted without the condition on the event.
MarkMatchesDeleted_AllEvents(table, eventKey, matches) ==
    LET keys == { matches[i].Key : i \in 1..Len(matches) }
    IN  [k \in DOMAIN table |->
            IF k \notin keys THEN [table[k] EXCEPT !.TBADeleted = TRUE] ELSE table[k]]

\* MarkMatchesDeleted
MarkMatchesDeleted(table, eventKey, matches) ==
    LET keys == { matches[i].Key : i \in 1..Len(matches) }
    IN  [k \in DOMAIN table |->
            IF table[k].EventKey = eventKey /\ k \notin keys
                THEN [table[k] EXCEPT !.TBADeleted = TRUE]
                ELSE table[k]]

RECURSIVE UpdateTBAMatches(_, _, _)
\* UpdateTBAMatches: the loop over matches inside the transaction.
UpdateTBAMatches(table, eventKey, matches) ==
    IF matches = <<>> THEN table
    ELSE UpdateTBAMatches(upsert(table, Head(matches)), eventKey, Tail(matches))

InitSync ==
    /\ pc = "sync"
    /\ matchTable \in MatchTables
    /\ \E eventKey \in EventKeys :
           request \in [eventKey : {eventKey}, matches : GivenMatches(eventKey)]
    /\ response = NoResponse
    /\ storeMatches = <<>> /\ reports = <<>> /\ teamToMatches = EmptyMap
    /\ schema = <<>> /\ observations = <<>> /\ evals = <<>> /\ summary = <<>>
    /\ store = <<>> /\ event = <<>> /\ fetched = <<>>
    /\ pending = {} /\ teamAnalyses = <<>>
    /\ previous = Nil /\ users = EmptyMap /\ served = 0
    /\ provider = <<>> /\ tbaResult = <<>>
    /\ now = 0 /\ refreshTokens = {}

\* s.UpdateTBAMatches(ctx, eventKey, matches) commits.
UpdateTBAMatchesOk ==
    /\ pc = "sync"
    /\ matchTable' = UpdateTBAMatches(matchTable, request.eventKey, request.matches)
    /\ pc' = "updated"
    /\ UNCHANGED <<aggVars, evalVars, handlerVars, previous, userVars, tbaVars, authVars>>

\* s.UpdateTBAMatches fails: the transaction is rolled back.
UpdateTBAMatchesError ==
    /\ pc = "sync"
    /\ pc' = "failed"
    /\ UNCHANGED <<aggVars, evalVars, handlerVars, extVars>>

\* s.MarkMatchesDeleted(ctx, eventKey, matches) succeeds.
MarkMatchesDeletedOk ==
    /\ pc = "updated"
    /\ matchTable' = MarkMatchesDeleted(matchTable, request.eventKey, request.matches)
    /\ pc' = "marked"
    /\ UNCHANGED <<aggVars, evalVars, handlerVars, previous, userVars, tbaVars, authVars>>

\* s.MarkMatchesDeleted fails: no row is updated.
MarkMatchesDeletedError ==
    /\ pc = "updated"
    /\ pc' = "failed"
    /\ UNCHANGED <<aggVars, evalVars, handlerVars, extVars>>

NextSync ==
    \/ UpdateTBAMatchesOk
    \/ UpdateTBAMatchesError
    \/ MarkMatchesDeletedOk
    \/ MarkMatchesDeletedError

SpecSync == InitSync /\ [][NextSync]_vars

(***************************************************************************)
(* Claims about the aggregator, checked under SpecAgg.                     *)
(***************************************************************************)
\* The observations the output holds for team t in the match with key k.
ObservationsOf(t, k) ==
    LET IsOfMatch(o) == o.Key = k
    IN  SelectSeq(MapGet(teamToMatches, t, <<>>), IsOfMatch)

\* The input reports of team t for the match with key k, in input order.
ReportsOf(t, k) ==
    LET IsOfTeamMatch(r) == r.TeamKey = t /\ r.MatchKey = k
    IN  SelectSeq(reports, IsOfTeamMatch)

\* The teams listed in some match of the input.
ListedTeams ==
    UNION { { matchTeams(storeMatches[j])[i] : i \in 1..Len(matchTeams(storeMatches[j])) }
            : j \in 1..Len(storeMatches) }

SeqToSet(s) == { s[i] : i \in 1..Len(s) }

\* C1: in the returned output, the team at index i (from 0) of the list
\* 'red alliance followed by blue alliance' of a match has the position
\* (i mod R) + 1, R the size of the red alliance, for both colours; the
\* lineup red=[A,B,C], blue=[D,E,F] gives A=1, B=2, C=3, D=1, E=2, F=3.
C1_PositionIsIndexModRed ==
    pc = "agg_returned" =>
        \A j \in 1..Len(storeMatches) :
            LET m  == storeMatches[j]
                ts == m.RedAlliance \o m.BlueAlliance
                R  == Len(m.RedAlliance)
            IN  /\ \A i \in 0..(Len(ts) - 1) :
                       /\ R > 0
                       /\ Len(ObservationsOf(ts[i + 1], m.Key)) > 0
                       /\ \A n \in 1..Len(ObservationsOf(ts[i + 1], m.Key)) :
                              ObservationsOf(ts[i + 1], m.Key)[n].RobotPosition
                                  = (i % R) + 1
                /\ (m.RedAlliance = <<"A", "B", "C">> /\ m.BlueAlliance = <<"D", "E", "F">>)
                       => /\ ObservationsOf("A", m.Key)[1].RobotPosition = 1
                          /\ ObservationsOf("B", m.Key)[1].RobotPosition = 2
                          /\ ObservationsOf("C", m.Key)[1].RobotPosition = 3
                          /\ ObservationsOf("D", m.Key)[1].RobotPosition = 1
                          /\ ObservationsOf("E", m.Key)[1].RobotPosition = 2
                          /\ ObservationsOf("F", m.Key)[1].RobotPosition = 3

\* The aggregator has returned for an input holding the lineup of the
\* example and a lineup whose blue alliance is larger than its red one.
C1_Witness ==
    /\ pc = "agg_returned"
    /\ Len(storeMatches) = 2
    /\ storeMatches[1].RedAlliance = <<"A", "B", "C">>
    /\ storeMatches[1].BlueAlliance = <<"D", "E", "F">>
    /\ storeMatches[2].RedAlliance = <<"A", "B">>
    /\ storeMatches[2].BlueAlliance = <<"C", "D", "E">>
    /\ teamToMatches["E"][2].RobotPosition = 1

\* C2: every observation of the returned output belongs to a match of the
\* input that lists the team, and carries that match's red breakdown when
\* the team is in its red alliance and its blue breakdown when the team is
\* in its blue alliance.
C2_BreakdownOfOwnAlliance ==
    pc = "agg_returned" =>
        \A t \in DOMAIN teamToMatches :
            \A n \in 1..Len(teamToMatches[t]) :
                LET o == teamToMatches[t][n]
                IN  \E j \in 1..Len(storeMatches) :
                        LET m == storeMatches[j]
                        IN  /\ m.Key = o.Key
                            /\ t \in SeqToSet(m.RedAlliance) \cup SeqToSet(m.BlueAlliance)
                            /\ t \in SeqToSet(m.RedAlliance)
                                   => o.ScoreBreakdown = m.RedScoreBreakdown
                            /\ t \in SeqToSet(m.BlueAlliance)
                                   => o.ScoreBreakdown = m.BlueScoreBreakdown

\* A team has played red in one match and blue in another, and its two
\* observations carry the two different breakdowns.
C2_Witness ==
    /\ pc = "agg_returned"
    /\ Len(storeMatches) = 2
    /\ "B" \in SeqToSet(storeMatches[1].BlueAlliance)
    /\ "B" \in SeqToSet(storeMatches[2].RedAlliance)
    /\ Len(teamToMatches["B"]) = 2
    /\ teamToMatches["B"][1].ScoreBreakdown = storeMatches[1].BlueScoreBreakdown
    /\ teamToMatches["B"][2].ScoreBreakdown = storeMatches[2].RedScoreBreakdown

ReportsOfListedTeams ==
    LET IsListed(r) == r.TeamKey \in ListedTeams
    IN  SelectSeq(reports, IsListed)

\* C4: a team listed in no match is no key of the returned output, also
\* when reports were submitted for it; its reports change nothing of the
\* output (the output is the one of the input without them) and raise no
\* failure (the aggregator fails only on a match with an empty red and a
\* non-empty blue alliance).
C4_UnlistedTeamAbsent ==
    /\ pc = "agg_returned" =>
           /\ DOMAIN teamToMatches = ListedTeams
           /\ teamToMatches = selectTeamMatches(storeMatches, ReportsOfListedTeams).out
    /\ pc = "agg_panic" =>
           \E j \in 1..Len(storeMatches) :
               /\ storeMatches[j].RedAlliance = <<>>
               /\ storeMatches[j].BlueAlliance # <<>>

\* Reports were submitted for Z, which no match lists, and for A, which a
\* match lists: the output has A's observation and no key Z.
C4_Witness ==
    /\ pc = "agg_returned"
    /\ Len(reports) = 2
    /\ reports[1].TeamKey = "Z"
    /\ reports[2].TeamKey = "A"
    /\ "A" \in DOMAIN teamToMatches
    /\ "Z" \notin DOMAIN teamToMatches
    /\ \E n \in 1..Len(teamToMatches["A"]) : teamToMatches["A"][n].Reports # <<>>

\* C5: for every input, also a match whose red alliance is empty while its
\* blue alliance is not, the aggregator returns a result or a typed error:
\* it never terminates abnormally.
C5_NeverTerminatesAbnormally == pc # "agg_panic"

(***************************************************************************)
(* Claims about the evaluator, checked under SpecEval.                     *)
(***************************************************************************)
\* The reports of observation o that give the field called name the value v.
ReportsGiving(o, name, v) ==
    { i \in 1..Len(observations[o].Reports) :
        \E k \in 1..Len(observations[o].Reports[i]) :
            /\ observations[o].Reports[i][k].Name = name
            /\ observations[o].Reports[i][k].Value = v }

\* The values the reports of observation o give the field called name.
ValuesGiven(o, name) ==
    { observations[o].Reports[i][k].Value :
        <<i, k>> \in { ik \in (1..Len(observations[o].Reports)) \X (1..2) :
                        /\ ik[2] <= Len(observations[o].Reports[ik[1]])
                        /\ observations[o].Reports[ik[1]][ik[2]].Name = name } }

FirstReportGiving(o, name, v) ==
    CHOOSE i \in ReportsGiving(o, name, v) : \A j \in ReportsGiving(o, name, v) : i <= j

\* C8: a ReportRef(name) field evaluates to the value of name that most of
\* the observation's reports give; among equally frequent values to the one
\* given first in report order; and to absent when the observation has no
\* report (or none giving name).
C8_ReportRefIsMode ==
    pc # "eval_call" =>
        \A f \in 1..Len(schema) : \A o \in 1..Len(observations) :
            schema[f].ReportReference # "" =>
                LET name == schema[f].ReportReference
                    r    == evals[f][o]
                IN  /\ Len(observations[o].Reports) = 0 => r = Absent
                    /\ ValuesGiven(o, name) = {} => r = Absent
                    /\ ValuesGiven(o, name) # {} =>
                           /\ IsPresent(r)
                           /\ r[2] \in ValuesGiven(o, name)
                           /\ \A w \in ValuesGiven(o, name) \ {r[2]} :
                                  LET nv == Cardinality(ReportsGiving(o, name, r[2]))
                                      nw == Cardinality(ReportsGiving(o, name, w))
                                  IN  \/ nw < nv
                                      \/ /\ nw = nv
                                         /\ FirstReportGiving(o, name, r[2])
                                                < FirstReportGiving(o, name, w)

\* Reports 3, 3, 5 gave 3; reports 5, 3 (a tie) gave the first seen, 5.
C8_Witness ==
    /\ pc = "evaluated"
    /\ Len(observations) = 2
    /\ Len(schema) >= 1
    /\ schema[1].ReportReference = "auto"
    /\ reportValues(observations[1].Reports, "auto", 1) = <<3, 3, 5>>
    /\ reportValues(observations[2].Reports, "auto", 1) = <<5, 3>>
    /\ evals[1][1] = Present(3)
    /\ evals[1][2] = Present(5)

\* C9: a TBARef(name) field reads name from the observation's own score
\* breakdown: true gives 1, false gives 0, a number is returned unchanged,
\* and a key missing from the breakdown gives absent.
C9_TBARefReadsBreakdown ==
    pc # "eval_call" =>
        \A f \in 1..Len(schema) : \A o \in 1..Len(observations) :
            schema[f].TBAReference # "" =>
                LET name == schema[f].TBAReference
                    bd   == observations[o].ScoreBreakdown
                IN  /\ name \notin DOMAIN bd => evals[f][o] = Absent
                    /\ name \in DOMAIN bd =>
                           /\ bd[name] = Bool(TRUE) => evals[f][o] = Present(1)
                           /\ bd[name] = Bool(FALSE) => evals[f][o] = Present(0)
                           /\ bd[name][1] = "Number" => evals[f][o] = Present(bd[name][2])

\* One observation whose breakdown has a number and true, another whose
\* breakdown has a negative number and lacks the boolean key.
C9_Witness ==
    /\ pc = "evaluated"
    /\ Len(observations) = 2
    /\ Len(schema) = 2
    /\ schema[1].TBAReference = "climbed"
    /\ schema[2].TBAReference = "score"
    /\ evals[1][1] = Present(1)
    /\ evals[2][1] = Present(10)
    /\ evals[1][2] = Absent
    /\ evals[2][2] = Present(-5)

\* C10: on every observation a Sum([A, B]) field whose sub-fields are
\* defined evaluates to the value of A (0 when absent) plus the value of B
\* (0 when absent); it is present also when both are absent.
C10_SumAddsSubFields ==
    pc # "eval_call" =>
        \A f \in 1..Len(schema) : \A o \in 1..Len(observations) :
            Len(schema[f].Sum) = 2 =>
                \A a \in 1..Len(schema) : \A b \in 1..Len(schema) :
                    ( /\ schema[a].Name = schema[f].Sum[1].Name
                      /\ schema[b].Name = schema[f].Sum[2].Name
                      /\ ~IsError(evals[a][o])
                      /\ ~IsError(evals[b][o]) )
                    => /\ IsPresent(evals[f][o])
                       /\ evals[f][o][2] = orZero(evals[a][o]) + orZero(evals[b][o])

\* The sum of an absent and an absent value is 0, of 3 and 10 is 13, of an
\* absent value and -5 is -5.
C10_Witness ==
    /\ pc = "evaluated"
    /\ Len(schema) = 3
    /\ schema[3].Name = "total"
    /\ Len(observations) = 2
    /\ \E a \in 1..2 : \E b \in 1..2 :
           /\ schema[a].Name = "auto" /\ schema[b].Name = "score"
           /\ evals[a][1] = Absent /\ evals[b][1] = Absent
           /\ evals[3][1] = Present(0)
           /\ evals[a][2] = Present(3) /\ evals[b][2] = Present(10)
           /\ evals[3][2] = Present(13)

\* The index in the schema of the field the k-th pair of field f names.
PairField(f, k) == resolveField(schema, schema[f].AnyOf[k].Name)

\* C11: on every observation an AnyOf field whose pairs name defined fields
\* evaluates to 1 when the value of some pair's field is present and equals
\* the pair's literal, and to 0 otherwise (in particular when the field of
\* its only pair is absent); it is never absent.
C11_AnyOfIsIndicator ==
    pc # "eval_call" =>
        \A f \in 1..Len(schema) : \A o \in 1..Len(observations) :
            ( /\ Len(schema[f].AnyOf) > 0
              /\ \A k \in 1..Len(schema[f].AnyOf) :
                     /\ PairField(f, k) # 0
                     /\ ~IsError(evals[PairField(f, k)][o]) )
            => evals[f][o] =
                   IF \E k \in 1..Len(schema[f].AnyOf) :
                          evals[PairField(f, k)][o] = Present(schema[f].AnyOf[k].Equals)
                       THEN Present(1) ELSE Present(0)

\* AnyOf([(climbed, 0)]) is 0 where climbed is absent and 1 where the
\* breakdown says false.
C11_Witness ==
    /\ pc = "evaluated"
    /\ Len(schema) = 2
    /\ schema[2].AnyOf = <<[Name |-> "climbed", Equals |-> 0]>>
    /\ Len(observations) = 2
    /\ evals[1][1] = Absent
    /\ evals[2][1] = Present(0)
    /\ evals[1][2] = Present(0)
    /\ evals[2][2] = Present(1)

\* The names a field refers to through Sum and AnyOf.
ReferencedNames(field) ==
    { field.Sum[k].Name : k \in 1..Len(field.Sum) }
        \cup { field.AnyOf[k].Name : k \in 1..Len(field.AnyOf) }

\* Whether the field reaches, in at most depth + 1 references, a name the
\* schema does not define.
RECURSIVE ReachesUndefined(_, _, _)
ReachesUndefined(sch, field, depth) ==
    \E n \in ReferencedNames(field) :
        \/ resolveField(sch, n) = 0
        \/ /\ depth > 0
           /\ resolveField(sch, n) # 0
           /\ ReachesUndefined(sch, sch[resolveField(sch, n)], depth - 1)

\* C12: a field that reaches an undefined name, directly or through other
\* Sum or AnyOf fields, evaluates to the SchemaIntegrityError on every
\* observation, never to absent or to a number; and a summary computed from
\* at least one observation is returned only for a schema none of whose
\* fields reaches an undefined name.
C12_UndefinedReferenceFails ==
    /\ pc # "eval_call" =>
           \A f \in 1..Len(schema) : \A o \in 1..Len(observations) :
               ReachesUndefined(schema, schema[f], Len(schema))
                   => evals[f][o] = SchemaIntegrityError
    /\ (pc = "summarized" /\ Len(observations) > 0) =>
           \A f \in 1..Len(schema) : ~ReachesUndefined(schema, schema[f], Len(schema))

\* "nested" sums "broken", which sums "auto" and the undefined "ghost": both
\* fail on an observation where "auto" is 3, and there is no summary.
C12_Witness ==
    /\ pc = "summarize_error"
    /\ Len(schema) = 3
    /\ schema[3].Name = "nested"
    /\ Len(observations) = 2
    /\ evals[1][2] = Present(3)
    /\ evals[2][2] = SchemaIntegrityError
    /\ evals[3][2] = SchemaIntegrityError
    /\ summary = <<>>

(***************************************************************************)
(* Claims about the summaries the handlers return, checked under Spec.     *)
(***************************************************************************)
\* The team analyses of a 200 response.
ReturnedAnalyses ==
    IF response.status # 200 THEN {}
    ELSE IF request.handler = "eventStats"
        THEN { response.body[i] : i \in 1..Len(response.body) }
        ELSE { response.body }

\* C6: every summary returned for a team, whatever its observations (none
\* included), holds exactly one stat per field of the store's schema, with
\* the field's name, in schema order; the converted schema holds the store
\* schema's fields, one for one and in order.
C6_OneStatPerSchemaField ==
    /\ pc = "summarize" =>
           /\ Len(schema) = Len(store.Schema.Schema)
           /\ \A i \in 1..Len(schema) :
                  /\ schema[i].Name = store.Schema.Schema[i].FieldDescriptor.Name
                  /\ schema[i].ReportReference = store.Schema.Schema[i].ReportReference
                  /\ schema[i].TBAReference = store.Schema.Schema[i].TBAReference
                  /\ schema[i].Sum = store.Schema.Schema[i].Sum
                  /\ schema[i].AnyOf = store.Schema.Schema[i].AnyOf
    /\ \A ta \in ReturnedAnalyses :
           /\ Len(ta.Summary) = Len(store.Schema.Schema)
           /\ \A i \in 1..Len(ta.Summary) :
                  ta.Summary[i].Name = store.Schema.Schema[i].FieldDescriptor.Name

\* A team-in-match response for a team without observations, over a schema
\* of three fields.
C6_Witness ==
    /\ pc = "done"
    /\ response.status = 200
    /\ Len(store.Schema.Schema) = 3
    /\ request.handler = "matchTeamStats"
    /\ request.teamKey \notin DOMAIN teamToMatches
    /\ Len(response.body.Summary) = 3
    /\ response.body.Summary[1].Name = "total"
    /\ response.body.Summary[2].Name = "score"
    /\ response.body.Summary[3].Name = "auto"

\* The observations SummarizeTeam was given for the team of an analysis.
ObservationsOfTeam(team) == MapGet(teamToMatches, team, <<>>)

\* The observations of the team on which field f of the schema is present.
PresentOn(team, f) ==
    { o \in 1..Len(ObservationsOfTeam(team)) :
        IsPresent(evaluate(schema, schema[f], ObservationsOfTeam(team)[o])) }

ValueOn(team, f, o) == evaluate(schema, schema[f], ObservationsOfTeam(team)[o])[2]

RECURSIVE TotalOn(_, _, _)
TotalOn(team, f, P) ==
    IF P = {} THEN 0
    ELSE LET o == CHOOSE x \in P : TRUE
         IN  ValueOn(team, f, o) + TotalOn(team, f, P \ {o})

\* C7: in every returned summary the stat of a schema field has, over the
\* team's observations on which the field is present, max = the largest
\* value and average = the sum of the values divided by their number; when
\* the field is present on none, the stat is listed with max 0 and
\* average 0.
C7_MaxAndAverageOfPresentValues ==
    \A ta \in ReturnedAnalyses :
        \A f \in 1..Len(schema) :
            LET P    == PresentOn(ta.Team, f)
                stat == ta.Summary[f]
            IN  /\ f <= Len(ta.Summary)
                /\ stat.Name = schema[f].Name
                /\ P = {} => stat.Max = 0 /\ stat.Average = Zero
                /\ P # {} =>
                       /\ \E o \in P : stat.Max = ValueOn(ta.Team, f, o)
                       /\ \A o \in P : stat.Max >= ValueOn(ta.Team, f, o)
                       /\ stat.Average.den > 0
                       /\ stat.Average.num * Cardinality(P)
                              = stat.Average.den * TotalOn(ta.Team, f, P)

\* Team A played two matches with scores 10 and 20 (max 20, average 15);
\* team C, with scores -5 and -15 and without reports, has max -5 and
\* average -10 for "score" and max 0 and average 0 for "auto".
C7_Witness ==
    /\ pc = "done"
    /\ response.status = 200
    /\ request.handler = "eventStats"
    /\ \E i \in 1..Len(response.body) : \E j \in 1..Len(response.body) :
           /\ response.body[i].Team = "A"
           /\ Len(teamToMatches["A"]) = 2
           /\ Len(schema) = 3
           /\ schema[2].Name = "score"
           /\ response.body[i].Summary[2].Max = 20
           /\ response.body[i].Summary[2].Average = [num |-> 15, den |-> 1]
           /\ response.body[j].Team = "C"
           /\ response.body[j].Summary[2].Max = -5
           /\ response.body[j].Summary[2].Average = [num |-> -10, den |-> 1]
           /\ schema[3].Name = "auto"
           /\ response.body[j].Summary[3].Max = 0
           /\ response.body[j].Summary[3].Average = Zero

(***************************************************************************)
(* Claims about the control flow of the handlers, checked under Spec.      *)
(***************************************************************************)
\* C13: in the event-wide query, a step of the loop over the teams never
\* aborts the request: when the handler responds, the status is 200 and the
\* list holds the summary of every team whose summarization succeeds, also
\* when the summarization of some team failed.
C13_ErrorAbortsOnlyItsTeam ==
    [][ (pc = "summarize" /\ request.handler = "eventStats" /\ pc' = "done") =>
            /\ response'.status = 200
            /\ \A team \in DOMAIN teamToMatches :
                   LET r == SummarizeTeam(schema, teamToMatches[team])
                   IN  ~r.err => \E i \in 1..Len(response'.body) :
                                    response'.body[i] = teamAnalysisFromSummary(r.summary, team)
      ]_vars

\* C14: when the event-wide query is answered 200 twice on the same store,
\* the two bodies are identical: the same summaries, listed in the same
\* order of teams.
C14_SameOutputTwice ==
    (pc = "done" /\ previous # Nil /\ response.status = 200)
        => response.body = previous[1]

\* C15: when the event has no schema, the next step of either handler is
\* the response 400, with nothing fetched after the event and nothing
\* aggregated or summarized; and no step follows a 400 response.
C15_NoSchemaIsClientError ==
    [][ /\ (pc = "event" /\ event.SchemaID = Nil) =>
               /\ pc' = "done"
               /\ response'.status = 400
               /\ fetched' = <<"event">>
               /\ UNCHANGED <<storeMatches, reports, teamToMatches, schema, pending,
                              teamAnalyses>>
        /\ ~(pc = "done" /\ response.status = 400)
      ]_vars

\* The team-in-match query answered 400 with only the event fetched.
C15_Witness ==
    /\ pc = "done"
    /\ request.handler = "matchTeamStats"
    /\ event.SchemaID = Nil
    /\ response = [status |-> 400, body |-> "no schema found"]
    /\ fetched = <<"event">>
    /\ storeMatches = <<>> /\ reports = <<>> /\ teamToMatches = EmptyMap
    /\ schema = <<>> /\ teamAnalyses = <<>>

(***************************************************************************)
(* Claims about the provider client, checked under SpecTBA.                *)
(***************************************************************************)
\* The *int expected for a provider score: nil for null and for -1, else a
\* pointer to the same number.
ExpectedScore(v) ==
    IF v = JSONNull \/ v = Number(-1) THEN Nil ELSE PointerTo(v[2])

Served(h) == served > 0 /\ request.handler = h

\* The step handles a request to a handler of H.
Serves(H) == served' = served + 1 /\ request'.handler \in H

\* C17: when GET /users/{id} is answered for a requester who is not a
\* super-admin, a 200 response carries a user of the requester's realm, and
\* a request of a logged-in requester for a stored user of another realm is
\* answered 404 without a user (unless the store failed).
C17_GetOnlyOwnRealm ==
    (Served("getUserByID") /\ ~request.ctx.roles.IsSuperAdmin) =>
        LET id == ParseInt(request.id)
            realm == request.ctx.realm
        IN  /\ response.status = 200 =>
                   realm # Nil /\ response.body.RealmID = realm[1]
            /\ ( /\ ~id.err
                 /\ id.n \in DOMAIN users
                 /\ request.ctx.subject # Nil
                 /\ realm = Nil \/ users[id.n].RealmID # realm[1]
                 /\ response.status # 500 )
               => response.status = 404

\* C18: a step that handles POST /users or PATCH /users/{id} for a
\* requester who is not a super-admin leaves IsSuperAdmin true only for
\* users that had it before the step.
C18_NoNewSuperAdmin ==
    [][ (Serves({"createUser", "patchUser"}) /\ ~request'.ctx.roles.IsSuperAdmin) =>
            \A id \in DOMAIN users' :
                users'[id].Roles.IsSuperAdmin =>
                    id \in DOMAIN users /\ users[id].Roles.IsSuperAdmin
      ]_vars

\* The admin of realm 1 asked for a super-admin "dave" in realm 1: dave is
\* stored as a verified admin who is no super-admin.
C18_Witness ==
    /\ Served("createUser")
    /\ request.ctx.roles = Roles(FALSE, TRUE, TRUE)
    /\ request.body = RequestUser("dave", "davepass1", 1, "Dave", Roles(TRUE, TRUE, TRUE))
    /\ response.status = 201
    /\ \E id \in DOMAIN users :
           /\ users[id].Username = "dave"
           /\ users[id].Roles = Roles(FALSE, TRUE, TRUE)

\* The user a successful POST /users stored.
CreatedUsers == { id \in DOMAIN users : users[id].Username = request.body.Username }

\* C19: after a POST /users answered 201 for a requester who is not a
\* super-admin and who has no realm or another realm than the one asked
\* for, the user created is stored with IsVerified and IsAdmin false.
C19_OtherRealmUnverified ==
    ( /\ Served("createUser")
      /\ response.status = 201
      /\ ~request.ctx.roles.IsSuperAdmin
      /\ request.ctx.realm = Nil \/ request.ctx.realm[1] # request.body.RealmID )
    => /\ CreatedUsers # {}
       /\ \A id \in CreatedUsers :
              ~users[id].Roles.IsVerified /\ ~users[id].Roles.IsAdmin

\* The admin of realm 1 asked for a verified admin "dave" in realm 2: dave
\* is stored without roles.
C19_Witness ==
    /\ Served("createUser")
    /\ request.ctx.roles = Roles(FALSE, TRUE, TRUE)
    /\ request.ctx.realm = PointerTo(1)
    /\ request.body = RequestUser("dave", "davepass1", 2, "Dave", Roles(TRUE, TRUE, TRUE))
    /\ response.status = 201
    /\ \E id \in DOMAIN users :
           /\ users[id].Username = "dave"
           /\ users[id].RealmID = 2
           /\ users[id].Roles = NoRoles

\* C20: a step that handles PATCH /users/{T} for a requester S other than T
\* changes the users table only if S is a super-admin, or S is an admin and
\* the stored T is of S's realm; otherwise the response is an error status
\* and the table is unchanged.
C20_PatchOfOthersNeedsRights ==
    [][ ( /\ Serves({"patchUser"})
          /\ ~ParseInt(request'.id).err
          /\ request'.ctx.subject # PointerTo(ParseInt(request'.id).n) ) =>
            LET T     == ParseInt(request'.id).n
                ctx   == request'.ctx
                allowed ==
                    \/ ctx.roles.IsSuperAdmin
                    \/ /\ ctx.roles.IsAdmin
                       /\ T \in DOMAIN users
                       /\ ctx.realm # Nil
                       /\ users[T].RealmID = ctx.realm[1]
            IN  ~allowed => users' = users /\ response'.status >= 400
      ]_vars

\* The admin of realm 1 tried to patch root, of realm 2: 403 and root is
\* as before.
C20_Witness ==
    /\ Served("patchUser")
    /\ request.ctx.subject = PointerTo(2)
    /\ request.ctx.roles = Roles(FALSE, TRUE, TRUE)
    /\ request.id = "3"
    /\ request.body = PatchBody(Nil, Nil, Nil, PointerTo(Roles(TRUE, TRUE, TRUE)))
    /\ response.status = 403
    /\ 3 \in DOMAIN users
    /\ users[3] = User("root", 2, Roles(TRUE, TRUE, TRUE), "Root", "rootpass1")

(***************************************************************************)
(* Claims about positions within an alliance, checked under SpecAgg.       *)
(***************************************************************************)
\* The position the output gives team t in the match with key k.
PositionOf(t, k) == ObservationsOf(t, k)[1].RobotPosition

\* The teams of the alliance al have, in the match with key k, pairwise
\* distinct positions between 1 and the size of the alliance.
DistinctPositions(al, k) ==
    \A i \in 1..Len(al) :
        /\ PositionOf(al[i], k) >= 1
        /\ PositionOf(al[i], k) <= Len(al)
        /\ \A j \in 1..Len(al) : j # i => PositionOf(al[j], k) # PositionOf(al[i], k)

\* C25 as stated: in the returned output the teams of either alliance of a
\* match have pairwise distinct positions between 1 and the size of their
\* alliance, whatever the sizes of the two alliances.
C25_DistinctPositionsAnySizes ==
    pc = "agg_returned" =>
        \A j \in 1..Len(storeMatches) :
            /\ DistinctPositions(storeMatches[j].RedAlliance, storeMatches[j].Key)
            /\ DistinctPositions(storeMatches[j].BlueAlliance, storeMatches[j].Key)

\* C25 amended: the same for every match whose blue alliance is not larger
\* than its red alliance.
C25_DistinctPositionsBlueNotLarger ==
    pc = "agg_returned" =>
        \A j \in 1..Len(storeMatches) :
            Len(storeMatches[j].BlueAlliance) <= Len(storeMatches[j].RedAlliance) =>
                /\ DistinctPositions(storeMatches[j].RedAlliance, storeMatches[j].Key)
                /\ DistinctPositions(storeMatches[j].BlueAlliance, storeMatches[j].Key)

\* Red [B, A] has the positions 1 and 2 and blue [C] the position 1; in the
\* second match three red and three blue teams have the positions 1, 2, 3.
C25_Witness ==
    /\ pc = "agg_returned"
    /\ Len(storeMatches) = 2
    /\ storeMatches[1].RedAlliance = <<"B", "A">>
    /\ storeMatches[1].BlueAlliance = <<"C">>
    /\ storeMatches[2].RedAlliance = <<"A", "B", "C">>
    /\ storeMatches[2].BlueAlliance = <<"D", "E", "F">>
    /\ PositionOf("B", 1) = 1 /\ PositionOf("A", 1) = 2 /\ PositionOf("C", 1) = 1
    /\ PositionOf("D", 2) = 1 /\ PositionOf("E", 2) = 2 /\ PositionOf("F", 2) = 3

\* The requested team is in neither alliance of the match the store returned.
InNeitherAlliance ==
    /\ request.handler = "matchTeamStats"
    /\ Len(storeMatches) = 1
    /\ \A i \in 1..Len(storeMatches[1].RedAlliance) :
           storeMatches[1].RedAlliance[i] # request.teamKey
    /\ \A i \in 1..Len(storeMatches[1].BlueAlliance) :
           storeMatches[1].BlueAlliance[i] # request.teamKey

\* The body is a summary of the store's schema with max 0 and avg 0 in
\* every field.
AllZeroSummary(body) ==
    /\ body.Team = request.teamKey
    /\ Len(body.Summary) = Len(store.Schema.Schema)
    /\ \A i \in 1..Len(body.Summary) :
           /\ body.Summary[i].Name = store.Schema.Schema[i].FieldDescriptor.Name
           /\ body.Summary[i].Max = 0
           /\ body.Summary[i].Average = Zero

\* C26: once the store has answered the event, the match, the reports and
\* the schema, a team-in-match query for a team that is in neither alliance
\* of the match goes on to a 200 response whose summary lists every schema
\* field with max 0 and avg 0: the analysis is never aborted and the
\* response is neither an error nor a not-found.
C26_AbsentTeamAllZero ==
    [][ (pc \in {"analyze", "summarize"} /\ InNeitherAlliance) =>
            \/ pc' = "summarize"
            \/ /\ pc' = "done"
               /\ response'.status = 200
               /\ AllZeroSummary(response'.body)
      ]_vars

(***************************************************************************)
(* Claims about authentication and refresh, checked under SpecAuth.        *)
(***************************************************************************)
\* The request last handled is a request to handler h.
Answered(h) == served > 0 /\ request.handler = h

\* The users table holds the username of the body with the hash of its
\* password.
CredentialsMatch(body) ==
    \E id \in DOMAIN users :
        /\ users[id].Username = body.Username
        /\ users[id].HashedPassword = hash(body.Password)

\* The response carries an access token and a refresh token.
IssuesTokens ==
    /\ response.status = 200
    /\ DOMAIN response.body = {"accessToken", "refreshToken"}

\* The response is the 401 without a token.
Unauthorized == response.status = 401 /\ response.body = <<>>

\* C23 as stated: a decodable authenticate request the store answers gets
\* both tokens if and only if the username exists and the password matches
\* the stored hash, and the plain 401 otherwise.
C23_TokensIffCredentials ==
    (Answered("authenticate") /\ request.body # Malformed /\ ~request.dbError) =>
        /\ IssuesTokens <=> CredentialsMatch(request.body)
        /\ ~CredentialsMatch(request.body) => Unauthorized

\* C23 amended: an authenticate request that decodes, passes the validation
\* of baseUser and is answered by the store gets both tokens if and only
\* if the username exists and the password matches the stored hash; an
\* unknown username and a wrong password both get the plain 401.
C23_TokensIffValidCredentials ==
    (/\ Answered("authenticate")
     /\ request.body # Malformed
     /\ validBaseUser(request.body)
     /\ ~request.dbError) =>
        /\ IssuesTokens <=> CredentialsMatch(request.body)
        /\ ~CredentialsMatch(request.body) => Unauthorized

\* alice authenticates: both tokens are issued, for user 1.
C23_Witness ==
    /\ Answered("authenticate")
    /\ request.body = BaseUser("alice", "alicepass")
    /\ IssuesTokens
    /\ response.body.accessToken.Subject = "1"
    /\ response.body.accessToken.RealmID = 1
    /\ response.body.refreshToken.Subject = "1"
    /\ response.body.refreshToken.PasswordChanged = 0

\* The refresh token was issued to a user who is still stored and has
\* changed the password since.
IssuedBeforeChange(token) ==
    \E t \in refreshTokens :
        /\ t.token = token
        /\ ParseInt(token.Subject).n \in DOMAIN users
        /\ t.issuedAt < users[ParseInt(token.Subject).n].PasswordChanged

\* C22: a refresh request made with a token that was issued before the
\* user's last change of password never gets an access token, and when the
\* store answers it gets the 403.
C22_StaleTokenRejected ==
    (/\ Answered("refresh")
     /\ request.body # Malformed
     /\ request.body.RefreshToken # Garbage
     /\ IssuedBeforeChange(request.body.RefreshToken)) =>
        /\ response.status # 200
        /\ ~request.dbError => response.status = 403

\* C21: a DELETE of user T by requester S removes no user but T, and
\* removes T only if S is T or S is an admin or a super-admin, and, when S
\* is no super-admin, only if T belongs to S's realm; the users that stay
\* are unchanged.
C21_DeleteNeedsRights ==
    [][ (request'.handler = "deleteUser" /\ served' = served + 1) =>
            LET ctx == request'.ctx
                S   == GetSubject(ctx)
            IN  /\ \A i \in DOMAIN users' : i \in DOMAIN users /\ users'[i] = users[i]
                /\ \A T \in DOMAIN users \ DOMAIN users' :
                       /\ request'.id = FormatInt(T)
                       /\ ~S.err
                       /\ S.id = T \/ GetRoles(ctx).IsAdmin \/ GetRoles(ctx).IsSuperAdmin
                       /\ ~GetRoles(ctx).IsSuperAdmin =>
                              /\ ~GetRealmID(ctx).err
                              /\ users[T].RealmID = GetRealmID(ctx).id
      ]_vars

\* The admin of realm 1 has deleted alice, a user of realm 1: bobby stays.
C21_Witness ==
    /\ Answered("deleteUser")
    /\ request.ctx = Context(PointerTo(2), Roles(FALSE, TRUE, TRUE), PointerTo(1))
    /\ request.id = "1"
    /\ response.status = 204
    /\ 1 \notin DOMAIN users
    /\ 2 \in DOMAIN users

(***************************************************************************)
(* Claims about the matches table, checked under SpecSync.                 *)
(***************************************************************************)
\* The keys of the matches handed over.
GivenKeys == { request.matches[i].Key : i \in 1..Len(request.matches) }

====
